---- MODULE Spec2Model ----
(***************************************************************************)
(* A model of the fyaml wrapper around the libfyaml engine.                *)
(*                                                                         *)
(*  Spec        an Editor session that assembles nodes from RawNodeHandles *)
(*              in a new Document (src/src/editor.rs)                      *)
(*  SpecPath    an Editor session of path-based mutation, set_yaml_at and  *)
(*              delete_at, of a parsed Document (src/src/editor.rs)        *)
(*  SpecBuild   the node builders, with the engine calls and the input     *)
(*              buffer of build_from_yaml (src/src/editor.rs, diag.rs)     *)
(*  SpecOwn     what the borrow checker admits for Document, Editor,       *)
(*              NodeRef and RawNodeHandle, from the signatures of the      *)
(*              public API (src/src/document.rs, editor.rs, node_ref.rs)   *)
(*  SpecDoc     construction of Documents from text and their destruction  *)
(*              (src/src/document.rs)                                      *)
(*  SpecStream  stream parsers, their iterators and the Documents they     *)
(*              yield (src/src/parser.rs, src/src/document.rs)             *)
(*  SpecValue   the type interpretation of a node by ValueRef              *)
(*              (src/src/value_ref.rs, scalar_parse.rs, node_ref.rs)       *)
(*  SpecSeq     indexed reading of a sequence by NodeRef                   *)
(*              (src/src/node_ref.rs)                                      *)
(*  SpecEmit    emission of an owned Value as YAML text and the reading    *)
(*              of that text (src/src/value/emit.rs, scalar_parse.rs)      *)
(*  SpecIter    iteration over the children of a node by SeqIter and       *)
(*              MapIter (src/src/iter.rs)                                  *)
(*                                                                         *)
(* The engine itself is not part of the repository.  Its calls are modelled*)
(* as the wrapper's code and comments document them; wherever the engine   *)
(* may fail (allocation, malformed input) the outcome is an input of the   *)
(* action, chosen with \E.                                                 *)
(***************************************************************************)
EXTENDS Integers, Sequences, FiniteSets, TLC

VARIABLES
    \* ---- Spec: one Document under an Editor
    node,       \* node id -> [st, kind, text, kids]: the engine's nodes
    frees,      \* node id -> how many times the node's memory was freed
    root,       \* fy_document_root: a node id, or Null
    handles,    \* nodes of the RawNodeHandles the caller holds (all detached)
    docDiag,    \* the Document's installed diagnostic sink
    built,      \* nodes created through the Editor so far
    lastOp,     \* what the last Editor call did (observation only)
    \* ---- SpecOwn: loans
    docAlive,   \* the Document has not been dropped
    editor,     \* the live Editor: when it was made and last mutated
    refs,       \* the NodeRefs that may still be used
    raws,       \* the RawNodeHandles held
    tick,       \* borrows taken so far
    ownEv,      \* what the last step did (observation only)
    \* ---- SpecDoc, SpecStream: Documents and stream parsers
    parsers,    \* the ParserInner behind each FyParser, with its Rc count
    iters,      \* the DocumentIterators
    docs,       \* the Document values, in the order they were made
    docEv,      \* what the last call did (observation only)
    \* ---- SpecValue, SpecSeq, SpecEmit: reading and emitting values
    subject,    \* the node under the ValueRef, or the Value emitted
    valEv       \* what the last call returned (observation only)

editVars == <<node, frees, root, handles, docDiag, built, lastOp>>
ownVars  == <<docAlive, editor, refs, raws, tick, ownEv>>
docVars  == <<parsers, iters, docs, docEv>>
valVars  == <<subject, valEv>>
vars     == <<editVars, ownVars, docVars, valVars>>

---------------------------------------------------------------------------
\* Bounds of the model

\* nodes the Editor may create in one run
MaxBuilt == 3
\* borrows a caller may take of one Document and its Editors in one run
MaxTick == 5
\* Documents, stream parsers and iterators a caller makes in one run
MaxObjs == 4
\* the length of a sequence read through a NodeRef
MaxSeqLen == 3
\* the indices, negative and not, passed to seq_get
MaxIndex == 5

\* a null pointer
Null == 0

\* The nodes of the initially parsed document  "a: [x, y]\nb: v"  in the order
\* the engine creates them: 1 the root mapping, 2 key a, 3 the sequence,
\* 4 x, 5 y, 6 key b, 7 v
ParsedTree ==
    << [st |-> "live", kind |-> "map", text |-> <<>>, kids |-> <<2, 3, 6, 7>>],
       [st |-> "live", kind |-> "scalar", text |-> <<"a">>, kids |-> <<>>],
       [st |-> "live", kind |-> "seq", text |-> <<>>, kids |-> <<4, 5>>],
       [st |-> "live", kind |-> "scalar", text |-> <<"x">>, kids |-> <<>>],
       [st |-> "live", kind |-> "scalar", text |-> <<"y">>, kids |-> <<>>],
       [st |-> "live", kind |-> "scalar", text |-> <<"b">>, kids |-> <<>>],
       [st |-> "live", kind |-> "scalar", text |-> <<"v">>, kids |-> <<>>] >>

InitNodes == Len(ParsedTree)
NodeIds == 1..(InitNodes + MaxBuilt)

---------------------------------------------------------------------------
\* Text: a string is a sequence of one-character strings

Digits == {"0", "1", "2", "3", "4", "5", "6", "7", "8", "9"}

DigitVal(c) ==
    CASE c = "0" -> 0 [] c = "1" -> 1 [] c = "2" -> 2 [] c = "3" -> 3
      [] c = "4" -> 4 [] c = "5" -> 5 [] c = "6" -> 6 [] c = "7" -> 7
      [] c = "8" -> 8 [] OTHER -> 9

RECURSIVE DigitsVal(_)
DigitsVal(s) ==
    IF s = <<>> THEN 0
    ELSE DigitsVal(SubSeq(s, 1, Len(s) - 1)) * 10 + DigitVal(s[Len(s)])

I32Min == -2147483647 - 1
I32Max == 2147483647

\* an index parse in the manner of C's atoi: text that is no number reads
\* as 0
ParseI32_atoi(s) ==
    LET signed == s # <<>> /\ s[1] \in {"+", "-"}
        body   == IF signed THEN Tail(s) ELSE s
        bad    == body = <<>> \/ Len(body) > 9
                    \/ \E i \in DOMAIN body : body[i] \notin Digits
        mag    == IF bad THEN 0 ELSE DigitsVal(body)
        v      == IF signed /\ s[1] = "-" THEN 0 - mag ELSE mag
    IN  [ok |-> TRUE, val |-> v]

\* str::parse::<i32>(): an optional sign, then one or more decimal digits,
\* and the value must fit 32 bits.  (Inputs are at most 9 digits long.)
ParseI32(s) ==
    LET signed == s # <<>> /\ s[1] \in {"+", "-"}
        body   == IF signed THEN Tail(s) ELSE s
        bad    == body = <<>> \/ Len(body) > 9
                    \/ \E i \in DOMAIN body : body[i] \notin Digits
        mag    == IF bad THEN 0 ELSE DigitsVal(body)
        v      == IF signed /\ s[1] = "-" THEN 0 - mag ELSE mag
    IN  IF bad \/ v < I32Min \/ v > I32Max
        THEN [ok |-> FALSE, val |-> 0]
        ELSE [ok |-> TRUE, val |-> v]

\* str::rfind('/'): the last position of '/', 1-based; 0 when there is none
RFindSlash(p) ==
    LET hits == {i \in DOMAIN p : p[i] = "/"}
    IN  IF hits = {} THEN 0 ELSE CHOOSE i \in hits : \A j \in hits : j <= i

\* split_path: (parent_path, key)
split_path_keeps_slash(path) ==
    LET r == RFindSlash(path)
    IN  IF r = 0 THEN [parent |-> <<>>, key |-> path]
        ELSE IF r = 1 THEN [parent |-> <<>>, key |-> path]
        ELSE [parent |-> SubSeq(path, 1, r - 1),
              key |-> SubSeq(path, r, Len(path))]

split_path(path) ==
    LET r == RFindSlash(path)
    IN  IF r = 0 THEN [parent |-> <<>>, key |-> path]
        ELSE IF r = 1 THEN [parent |-> <<>>, key |-> SubSeq(path, 2, Len(path))]
        ELSE [parent |-> SubSeq(path, 1, r - 1),
              key |-> SubSeq(path, r + 1, Len(path))]

IsRootPath(path) == path = <<>> \/ path = <<"/">>

\* The '/'-separated segments of a path, empty segments dropped
RECURSIVE Segments(_, _)
Segments(p, cur) ==
    IF p = <<>> THEN (IF cur = <<>> THEN <<>> ELSE <<cur>>)
    ELSE IF Head(p) = "/"
         THEN (IF cur = <<>> THEN <<>> ELSE <<cur>>) \o Segments(Tail(p), <<>>)
         ELSE Segments(Tail(p), Append(cur, Head(p)))

---------------------------------------------------------------------------
\* Scalar type inference (src/src/scalar_parse.rs).  Integer values are
\* computed; a float is kept as its class (finite, inf, -inf, nan), which is
\* all the accessors' callers below look at.

UpperCase ==
    << "A", "B", "C", "D", "E", "F", "G", "H", "I", "J", "K", "L", "M",
       "N", "O", "P", "Q", "R", "S", "T", "U", "V", "W", "X", "Y", "Z" >>

LowerCase ==
    << "a", "b", "c", "d", "e", "f", "g", "h", "i", "j", "k", "l", "m",
       "n", "o", "p", "q", "r", "s", "t", "u", "v", "w", "x", "y", "z" >>

\* u8::to_ascii_lowercase
to_ascii_lowercase(c) ==
    IF \E i \in DOMAIN UpperCase : UpperCase[i] = c
    THEN LowerCase[CHOOSE i \in DOMAIN UpperCase : UpperCase[i] = c]
    ELSE c

\* str::eq_ignore_ascii_case
eq_ignore_ascii_case(s, t) ==
    /\ Len(s) = Len(t)
    /\ \A i \in DOMAIN s : to_ascii_lowercase(s[i]) = to_ascii_lowercase(t[i])

\* str::trim
RECURSIVE trim_start(_)
trim_start(s) == IF s # <<>> /\ s[1] = " " THEN trim_start(Tail(s)) ELSE s

RECURSIVE trim_end(_)
trim_end(s) ==
    IF s # <<>> /\ s[Len(s)] = " " THEN trim_end(SubSeq(s, 1, Len(s) - 1)) ELSE s

trim(s) == trim_end(trim_start(s))

\* str::starts_with, and what str::strip_prefix leaves
starts_with(s, p) == Len(s) >= Len(p) /\ SubSeq(s, 1, Len(p)) = p

strip_prefix(s, p) == SubSeq(s, Len(p) + 1, Len(s))

\* Option
None == [some |-> FALSE, val |-> "none"]
Some(v) == [some |-> TRUE, val |-> v]

\* scalar_parse::is_null
is_null(s) ==
    s = <<>> \/ s = <<"~">> \/ eq_ignore_ascii_case(s, <<"n", "u", "l", "l">>)

TrueWords ==
    { <<"t", "r", "u", "e">>, <<"T", "r", "u", "e">>, <<"T", "R", "U", "E">>,
      <<"y", "e", "s">>, <<"Y", "e", "s">>, <<"Y", "E", "S">>,
      <<"o", "n">>, <<"O", "n">>, <<"O", "N">> }

FalseWords ==
    { <<"f", "a", "l", "s", "e">>, <<"F", "a", "l", "s", "e">>,
      <<"F", "A", "L", "S", "E">>,
      <<"n", "o">>, <<"N", "o">>, <<"N", "O">>,
      <<"o", "f", "f">>, <<"O", "f", "f">>, <<"O", "F", "F">> }

\* scalar_parse::parse_bool
parse_bool(s) ==
    IF s \in TrueWords THEN Some(TRUE)
    ELSE IF s \in FalseWords THEN Some(FALSE)
    ELSE None

\* char::to_digit(16); NoDigit for a character that is no digit at all
NoDigit == 99

RadixDigit(c) ==
    IF c \in Digits THEN DigitVal(c)
    ELSE LET l == to_ascii_lowercase(c)
         IN  CASE l = "a" -> 10 [] l = "b" -> 11 [] l = "c" -> 12
               [] l = "d" -> 13 [] l = "e" -> 14 [] l = "f" -> 15
               [] OTHER -> NoDigit

\* Values of 64 and 128 bits do not fit the checker's integers.  An integer
\* is kept as its sign and its magnitude, and the magnitude as its digits to
\* the base LimbBase, the most significant first and zero empty.
LimbBase == 100000000

\* m * r + carry
RECURSIVE MulAdd(_, _, _)
MulAdd(m, r, carry) ==
    IF m = <<>>
    THEN IF carry = 0 THEN <<>>
         ELSE Append(MulAdd(<<>>, r, carry \div LimbBase), carry % LimbBase)
    ELSE LET t == m[Len(m)] * r + carry
         IN  Append(MulAdd(SubSeq(m, 1, Len(m) - 1), r, t \div LimbBase),
                    t % LimbBase)

\* a <= b on magnitudes
MagLeq(a, b) ==
    \/ Len(a) < Len(b)
    \/ /\ Len(a) = Len(b)
       /\ \/ a = b
          \/ LET i == CHOOSE k \in DOMAIN a :
                         a[k] # b[k] /\ \A j \in 1..(k - 1) : a[j] = b[j]
             IN  a[i] < b[i]

IntOf(neg, mag) == [neg |-> neg /\ mag # <<>>, mag |-> mag]

Negated(v) == IntOf(~v.neg, v.mag)

\* 2^63, 2^63 - 1, 2^64 - 1, 2^127, 2^127 - 1
I64MinMag == <<922, 33720368, 54775808>>

I64MaxMag == <<922, 33720368, 54775807>>

U64MaxMag == <<1844, 67440737, 9551615>>

I128MinMag == <<1701411, 83460469, 23173168, 73037158, 84105728>>

I128MaxMag == <<1701411, 83460469, 23173168, 73037158, 84105727>>

\* the integer types: whether signed, and the magnitudes of MIN and MAX
I64Ty == [signed |-> TRUE, minMag |-> I64MinMag, maxMag |-> I64MaxMag]

U64Ty == [signed |-> FALSE, minMag |-> <<>>, maxMag |-> U64MaxMag]

I128Ty == [signed |-> TRUE, minMag |-> I128MinMag, maxMag |-> I128MaxMag]

InRange(v, ty) ==
    IF v.neg THEN ty.signed /\ MagLeq(v.mag, ty.minMag) ELSE MagLeq(v.mag, ty.maxMag)

\* the digits of s folded into the magnitude acc, left to right
RECURSIVE RadixVal(_, _, _)
RadixVal(acc, s, radix) ==
    IF s = <<>> THEN acc
    ELSE LET next == MulAdd(acc, radix, RadixDigit(Head(s)))
         IN  IF next = <<>> THEN RadixVal(<<>>, Tail(s), radix)
             ELSE RadixVal(next, Tail(s), radix)

\* <ty>::from_str_radix, which str::parse is with radix 10: an optional
\* sign, '-' only for a signed type, then one or more digits of the radix;
\* a value outside the type is an error
from_str_radix(s, radix, ty) ==
    LET sign == s # <<>> /\ (s[1] = "+" \/ (ty.signed /\ s[1] = "-"))
        body == IF sign THEN Tail(s) ELSE s
        bad  == body = <<>> \/ \E i \in DOMAIN body : RadixDigit(body[i]) >= radix
        v    == IntOf(sign /\ s[1] = "-", RadixVal(<<>>, body, radix))
    IN  IF bad THEN None
        ELSE IF ~InRange(v, ty) THEN None
        ELSE Some(v)

\* i64::try_from(i128)
i64_try_from(v) == IF InRange(v, I64Ty) THEN Some(v) ELSE None

\* the radix a prefix selects, and the digits after the prefix
Prefixed(s) ==
    IF starts_with(s, <<"0", "x">>) \/ starts_with(s, <<"0", "X">>)
    THEN [radix |-> 16, digits |-> strip_prefix(s, <<"0", "x">>)]
    ELSE IF starts_with(s, <<"0", "o">>) \/ starts_with(s, <<"0", "O">>)
    THEN [radix |-> 8, digits |-> strip_prefix(s, <<"0", "o">>)]
    ELSE IF starts_with(s, <<"0", "b">>) \/ starts_with(s, <<"0", "B">>)
    THEN [radix |-> 2, digits |-> strip_prefix(s, <<"0", "b">>)]
    ELSE [radix |-> 10, digits |-> s]

\* -magnitude on i128::MIN overflows: a debug build panics there, a release
\* build wraps to i128::MIN, which i64::try_from rejects
NegateOverflow == [some |-> FALSE, val |-> "negate overflow"]

\* scalar_parse::parse_i64
parse_i64_in_i64(str) ==
    LET s    == trim(str)
        neg  == starts_with(s, <<"-">>)
        rest == IF neg \/ starts_with(s, <<"+">>) THEN Tail(s) ELSE s
        p    == Prefixed(rest)
        magnitude == from_str_radix(p.digits, p.radix, I64Ty)
    IN  IF s = <<>> THEN None
        ELSE IF ~magnitude.some THEN None
        ELSE Some(IF neg THEN Negated(magnitude.val) ELSE magnitude.val)

parse_i64(str) ==
    LET s    == trim(str)
        neg  == starts_with(s, <<"-">>)
        rest == IF neg \/ starts_with(s, <<"+">>) THEN Tail(s) ELSE s
        p    == Prefixed(rest)
        magnitude == from_str_radix(p.digits, p.radix, I128Ty)
    IN  IF s = <<>> THEN None
        ELSE IF ~magnitude.some THEN None
        ELSE IF neg /\ magnitude.val = IntOf(TRUE, I128MinMag) THEN NegateOverflow
        ELSE i64_try_from(IF neg THEN Negated(magnitude.val) ELSE magnitude.val)

\* scalar_parse::parse_u64
parse_u64(str) ==
    LET s    == trim(str)
        rest == IF starts_with(s, <<"-">>) \/ starts_with(s, <<"+">>)
                THEN Tail(s) ELSE s
        p    == Prefixed(rest)
    IN  IF s = <<>> THEN None
        ELSE IF starts_with(s, <<"-">>) /\ Tail(s) # <<>> THEN None
        ELSE from_str_radix(p.digits, p.radix, U64Ty)

\* the first position in s of a character of cs, 0 when there is none
Find(s, cs) ==
    LET hits == {i \in DOMAIN s : s[i] \in cs}
    IN  IF hits = {} THEN 0 ELSE CHOOSE i \in hits : \A j \in hits : i <= j

IsDigits(s) == \A i \in DOMAIN s : s[i] \in Digits

\* str::parse::<f64>: an optional sign, then inf, infinity or nan in any
\* case, or a decimal number: digits with at most one '.', at least one
\* digit, and an optional exponent of at least one digit
str_parse_f64(s) ==
    LET signed == s # <<>> /\ s[1] \in {"+", "-"}
        body   == IF signed THEN Tail(s) ELSE s
        e      == Find(body, {"e", "E"})
        mant   == IF e = 0 THEN body ELSE SubSeq(body, 1, e - 1)
        exp    == IF e = 0 THEN <<>> ELSE SubSeq(body, e + 1, Len(body))
        expDig == IF exp # <<>> /\ exp[1] \in {"+", "-"} THEN Tail(exp) ELSE exp
        dot    == Find(mant, {"."})
        int    == IF dot = 0 THEN mant ELSE SubSeq(mant, 1, dot - 1)
        frac   == IF dot = 0 THEN <<>> ELSE SubSeq(mant, dot + 1, Len(mant))
    IN  IF \/ eq_ignore_ascii_case(body, <<"i", "n", "f">>)
           \/ eq_ignore_ascii_case(body, <<"i", "n", "f", "i", "n", "i", "t", "y">>)
        THEN Some(IF signed /\ s[1] = "-" THEN "-inf" ELSE "inf")
        ELSE IF eq_ignore_ascii_case(body, <<"n", "a", "n">>) THEN Some("nan")
        ELSE IF /\ IsDigits(int) /\ IsDigits(frac)
                /\ Len(int) + Len(frac) >= 1
                /\ e # 0 => (expDig # <<>> /\ IsDigits(expDig))
        THEN Some("finite")
        ELSE None

\* the special spellings of a float
SpecialFloat(s) ==
    IF \/ eq_ignore_ascii_case(s, <<".", "i", "n", "f">>)
       \/ eq_ignore_ascii_case(s, <<"+", ".", "i", "n", "f">>)
    THEN Some("inf")
    ELSE IF eq_ignore_ascii_case(s, <<"-", ".", "i", "n", "f">>) THEN Some("-inf")
    ELSE IF eq_ignore_ascii_case(s, <<".", "n", "a", "n">>) THEN Some("nan")
    ELSE None

\* scalar_parse::parse_f64
parse_f64(s) ==
    IF SpecialFloat(s).some THEN SpecialFloat(s) ELSE str_parse_f64(s)

\* scalar_parse::parse_number: the Number variant the text stands for
parse_number(str) ==
    LET s == trim(str)
        has_decimal  == Find(s, {"."}) # 0
        has_exponent == Find(s, {"e", "E"}) # 0
    IN  IF s = <<>> THEN None
        ELSE IF parse_i64(s).some
        THEN Some(IF ~parse_i64(s).val.neg THEN "UInt" ELSE "Int")
        ELSE IF parse_u64(s).some THEN Some("UInt")
        ELSE IF SpecialFloat(s).some THEN Some("Float")
        ELSE IF (has_decimal \/ has_exponent) /\ str_parse_f64(s).some
        THEN Some("Float")
        ELSE None

\* scalar_parse::needs_quoting
needs_quoting_bool_only(s) == is_null(s) \/ parse_bool(s).some

needs_quoting(s) == is_null(s) \/ parse_bool(s).some \/ parse_number(s).some

---------------------------------------------------------------------------
\* The engine's node heap.  S is the record of the Editor-side state.

Blank == [st |-> "unalloc", kind |-> "none", text |-> <<>>, kids |-> <<>>]
Gone  == [st |-> "freed", kind |-> "none", text |-> <<>>, kids |-> <<>>]

Cur == [node |-> node, frees |-> frees, root |-> root, handles |-> handles,
        docDiag |-> docDiag, built |-> built]

IsLive(S, n) == n # Null /\ S.node[n].st = "live"

KidSet(S, n) == {S.node[n].kids[i] : i \in DOMAIN S.node[n].kids}

RECURSIVE Subtree(_, _)
Subtree(S, n) == {n} \cup UNION {Subtree(S, k) : k \in KidSet(S, n)}

HasParent(S, n) == \E m \in NodeIds : n \in KidSet(S, m)

\* the engine's `attached` flag: linked under a parent, or the document root
Attached(S, n) == n = S.root \/ HasParent(S, n)

\* a fresh node id; the engine returns a node it has not handed out before
NextId(S) ==
    LET used == {n \in NodeIds : S.node[n].st # "unalloc"}
    IN  Cardinality(used) + 1

CanAlloc(S, k) ==
    /\ S.built + k <= MaxBuilt
    /\ NextId(S) + k - 1 <= InitNodes + MaxBuilt

\* fy_node_create_scalar_copy / _sequence / _mapping, and the node a snippet
\* parses to: one new detached node
EngineCreate(S, kind, text) ==
    LET id == NextId(S)
    IN  [S EXCEPT !.node[id] = [st |-> "live", kind |-> kind, text |-> text,
                                kids |-> <<>>],
                  !.built = @ + 1]

Bump(c) == IF c >= 2 THEN 2 ELSE c + 1

\* fy_node_free: releases the node and everything below it
fy_node_free(S, n) ==
    LET dead == Subtree(S, n)
    IN  [S EXCEPT !.node = [m \in NodeIds |-> IF m \in dead THEN Gone ELSE S.node[m]],
                  !.frees = [m \in NodeIds |-> IF m \in dead THEN Bump(S.frees[m])
                                               ELSE S.frees[m]]]

\* fy_node_sequence_get_by_index: negative indices count from the end,
\* out of range is null
fy_node_sequence_get_by_index(S, seq, index) ==
    LET len == Len(S.node[seq].kids)
        i   == IF index < 0 THEN len + index ELSE index
    IN  IF i >= 0 /\ i < len THEN S.node[seq].kids[i + 1] ELSE Null

fy_node_sequence_item_count(S, seq) == Len(S.node[seq].kids)

\* A mapping keeps its pairs flattened: kids = <<key1, value1, key2, value2, ..>>.
\* fy_node_mapping_lookup_pair_by_string: the position of the pair's key in
\* kids, or 0 (a null pair)
fy_node_mapping_lookup_pair_by_string(S, map, key) ==
    LET ks   == S.node[map].kids
        hits == {i \in DOMAIN ks : /\ i % 2 = 1
                                    /\ S.node[ks[i]].kind = "scalar"
                                    /\ S.node[ks[i]].text = key}
    IN  IF hits = {} THEN 0 ELSE CHOOSE i \in hits : \A j \in hits : i <= j

\* fy_node_by_path from a node along the segments of a path
RECURSIVE Walk(_, _, _)
Walk(S, n, segs) ==
    IF segs = <<>> THEN n
    ELSE IF S.node[n].kind = "map"
    THEN LET i == fy_node_mapping_lookup_pair_by_string(S, n, Head(segs))
         IN  IF i = 0 THEN Null ELSE Walk(S, S.node[n].kids[i + 1], Tail(segs))
    ELSE IF S.node[n].kind = "seq"
    THEN LET ix == ParseI32(Head(segs))
             k  == IF ix.ok THEN fy_node_sequence_get_by_index(S, n, ix.val) ELSE Null
         IN  IF k = Null THEN Null ELSE Walk(S, k, Tail(segs))
    ELSE Null

fy_node_by_path(S, n, path) == Walk(S, n, Segments(path, <<>>))

RemoveAt(s, i) == SubSeq(s, 1, i - 1) \o SubSeq(s, i + 1, Len(s))
InsertAt(s, i, x) == SubSeq(s, 1, i - 1) \o <<x>> \o SubSeq(s, i, Len(s))
IndexOf(s, x) == CHOOSE i \in DOMAIN s : s[i] = x

---------------------------------------------------------------------------
\* Results of the wrapper's operations

NoBuf == [handed |-> FALSE, engineOwns |-> FALSE, engineFrees |-> 0,
          wrapperFrees |-> 0]

\* st: the state after the call; ok/err: Ok or the Err kind; h: the handle
\* returned; val: the bool returned; drops: the handles dropped inside the
\* call, each with its `inserted` flag at the drop; calls: the engine calls of
\* build_from_yaml in order; buf: what became of its input buffer
Res(S, ok, err) ==
    [st |-> S, ok |-> ok, err |-> err, h |-> Null, val |-> FALSE, drops |-> {},
     buf |-> NoBuf, calls |-> <<>>, pkind |-> "none"]

Call(f, a) == [f |-> f, arg |-> a]

Dropped(n, ins) == [node |-> n, inserted |-> ins]

---------------------------------------------------------------------------
\* RawNodeHandle

\* a drop that ignores the `inserted` flag
RawNodeHandle_drop_unconditional(S, n, inserted) == fy_node_free(S, n)

\* Drop for RawNodeHandle: free the node unless it was marked inserted
RawNodeHandle_drop(S, n, inserted) ==
    IF ~inserted THEN fy_node_free(S, n) ELSE S

\* marking before the engine's result is looked at
MarkedAfter_unchecked(ret) == TRUE

\* The insertion operations reach mark_inserted() only past the early return
\* on a non-zero engine result
MarkedAfter(ret) == ret = 0

---------------------------------------------------------------------------
\* Diagnostic capture inside build_from_yaml

\* a guard that restores nothing
DiagGuard_drop_forgets(g) == <<>>

\* Drop for DiagGuard: re-install the saved sink
DiagGuard_drop(g) == <<Call("fy_document_set_diag", g.original_diag)>>

\* Drop for Diag: release the capture context
Diag_drop(d) == IF d = "none" THEN <<>> ELSE <<Call("fy_diag_unref", d)>>

\* diag_error(diag, fallback): consumes the Diag; the located kind when a
\* native error was collected, the unlocated kind otherwise
diag_error(d, collected) ==
    IF d # "none" /\ collected THEN "ParseError" ELSE "Parse"

diag_error_calls(d) ==
    IF d = "none" THEN <<>>
    ELSE <<Call("fy_diag_errors_iterate", d)>> \o Diag_drop(d)

\* the Document's sink after a sequence of engine calls
RECURSIVE SinkAfter(_, _)
SinkAfter(calls, d) ==
    IF calls = <<>> THEN d
    ELSE SinkAfter(Tail(calls),
                   IF Head(calls).f = "fy_document_set_diag"
                   THEN Head(calls).arg ELSE d)

CountCalls(calls, f) == Cardinality({i \in DOMAIN calls : calls[i].f = f})

---------------------------------------------------------------------------
\* Snippets handed to build_from_yaml, and what the engine's parser makes of
\* them

Snippets == {"w", "[]", "{}", "null", "[bad"}
WellFormed(y) == y # "[bad"
SnippetKind(y) == CASE y = "[]" -> "seq" [] y = "{}" -> "map" [] OTHER -> "scalar"
SnippetText(y) ==
    CASE y = "w" -> <<"w">> [] y = "null" -> <<"n", "u", "l", "l">> [] OTHER -> <<>>

\* How fy_node_build_from_malloc_string may end: with a node; without one
\* after its internal parser registered the buffer (a parse error, a later
\* allocation failure); without one before the buffer was registered
BuildOutcomes == {"ok", "fail_registered", "fail_unregistered"}

BuildInputs ==
    [malloc : BOOLEAN, diag : BOOLEAN, eng : BuildOutcomes, collected : BOOLEAN]

\* what the engine can do with this snippet in this state
BuildFeasible(S, yaml, o) ==
    /\ o.eng = "ok" => WellFormed(yaml) /\ CanAlloc(S, 1)
    /\ ~WellFormed(yaml) => o.eng # "ok"
    /\ o.collected => o.diag /\ o.eng # "ok"
    /\ ~o.malloc => o.eng = "fail_unregistered" /\ ~o.diag

\* the wrapper's own handling of the buffer when the engine returns null:
\* editor.rs 514-528 returns the error and frees nothing
build_failure_cleanup == <<>>

\* Editor::build_from_yaml
build_from_yaml(S, yaml, o) ==
    IF ~o.malloc
    THEN Res(S, FALSE, "Alloc")
    ELSE
    LET diag  == IF o.diag THEN "capture" ELSE "none"
        guard == [original_diag |-> S.docDiag]
        pre   == <<Call("malloc", "buf")>>
                 \o (IF o.diag THEN <<Call("fy_diag_create", diag)>> ELSE <<>>)
                 \o <<Call("fy_document_get_diag", guard.original_diag)>>
                 \o (IF diag # "none"
                     THEN <<Call("fy_document_set_diag", diag)>> ELSE <<>>)
                 \o <<Call("fy_node_build_from_malloc_string", "buf")>>
        calls == IF o.eng = "ok"
                 THEN pre \o DiagGuard_drop(guard) \o Diag_drop(diag)
                 ELSE pre \o build_failure_cleanup \o diag_error_calls(diag)
                          \o DiagGuard_drop(guard)
        buf   == [handed |-> TRUE,
                  engineOwns |-> o.eng = "ok",
                  engineFrees |-> IF o.eng = "fail_registered" THEN 1 ELSE 0,
                  wrapperFrees |-> CountCalls(calls, "free")]
        S1    == [S EXCEPT !.docDiag = SinkAfter(calls, S.docDiag)]
    IN  IF o.eng = "ok"
        THEN [Res(EngineCreate(S1, SnippetKind(yaml), SnippetText(yaml)), TRUE, "none")
                EXCEPT !.h = NextId(S), !.calls = calls, !.buf = buf]
        ELSE [Res(S1, FALSE, diag_error(diag, o.collected))
                EXCEPT !.calls = calls, !.buf = buf]

\* RawNodeHandle::try_from_ptr over a fy_node_create_* / fy_node_copy call:
\* build_scalar, build_sequence, build_mapping, copy_node
build_node_as_root(S, kind, text, engOk) ==
    IF engOk
    THEN [Res([EngineCreate(S, kind, text) EXCEPT !.root = NextId(S)], TRUE, "none")
            EXCEPT !.h = NextId(S)]
    ELSE Res(S, FALSE, "Ffi")

build_node(S, kind, text, engOk) ==
    IF engOk
    THEN [Res(EngineCreate(S, kind, text), TRUE, "none") EXCEPT !.h = NextId(S)]
    ELSE Res(S, FALSE, "Ffi")

---------------------------------------------------------------------------
\* Engine calls that link and unlink nodes.  Each returns the state and the
\* engine's result; a failed call changes nothing and consumes nothing.

\* fy_document_set_root: frees the root it replaces
fy_document_set_root(S, n, engOk) ==
    IF ~engOk \/ Attached(S, n)
    THEN [st |-> S, ret |-> -1]
    ELSE LET S1 == IF S.root # Null
                   THEN fy_node_free([S EXCEPT !.root = Null], S.root) ELSE S
         IN  [st |-> [S1 EXCEPT !.root = n], ret |-> 0]

fy_node_sequence_append(S, seq, item, engOk) ==
    IF ~engOk \/ S.node[seq].kind # "seq" \/ Attached(S, item) \/ item = seq
    THEN [st |-> S, ret |-> -1]
    ELSE [st |-> [S EXCEPT !.node[seq].kids = Append(@, item)], ret |-> 0]

fy_node_sequence_insert_before(S, seq, mark, item, engOk) ==
    IF ~engOk \/ S.node[seq].kind # "seq" \/ Attached(S, item) \/ item = seq
       \/ mark \notin KidSet(S, seq)
    THEN [st |-> S, ret |-> -1]
    ELSE [st |-> [S EXCEPT !.node[seq].kids =
                               InsertAt(@, IndexOf(@, mark), item)],
          ret |-> 0]

\* the engine refuses a key the mapping already has
fy_node_mapping_append(S, map, key, value, engOk) ==
    IF \/ ~engOk \/ S.node[map].kind # "map"
       \/ Attached(S, key) \/ Attached(S, value)
       \/ key = value \/ key = map \/ value = map
       \/ /\ S.node[key].kind = "scalar"
          /\ fy_node_mapping_lookup_pair_by_string(S, map, S.node[key].text) # 0
    THEN [st |-> S, ret |-> -1]
    ELSE [st |-> [S EXCEPT !.node[map].kids = @ \o <<key, value>>], ret |-> 0]

\* fy_node_pair_set_value: the pair's old value is released by the engine
fy_node_pair_set_value(S, map, i, value, engOk) ==
    IF ~engOk \/ Attached(S, value) \/ value = map
    THEN [st |-> S, ret |-> -1]
    ELSE LET old == S.node[map].kids[i + 1]
             S1  == [S EXCEPT !.node[map].kids[i + 1] = value]
         IN  [st |-> fy_node_free(S1, old), ret |-> 0]

\* fy_node_sequence_remove: unlinks the item and hands it back, or null
fy_node_sequence_remove(S, seq, item, engOk) ==
    IF ~engOk \/ item \notin KidSet(S, seq)
    THEN [st |-> S, removed |-> Null]
    ELSE [st |-> [S EXCEPT !.node[seq].kids = RemoveAt(@, IndexOf(@, item))],
          removed |-> item]

\* fy_node_mapping_remove_by_key: unlinks the pair, releases the pair with
\* its key, and hands the value back, or null
fy_node_mapping_remove_by_key(S, map, key, engOk) ==
    IF ~engOk \/ ~\E i \in DOMAIN S.node[map].kids :
                     i % 2 = 1 /\ S.node[map].kids[i] = key
    THEN [st |-> S, removed |-> Null]
    ELSE LET i  == CHOOSE j \in DOMAIN S.node[map].kids :
                      j % 2 = 1 /\ S.node[map].kids[j] = key
             v  == S.node[map].kids[i + 1]
             S1 == [S EXCEPT !.node[map].kids = RemoveAt(RemoveAt(@, i), i)]
         IN  [st |-> fy_node_free(S1, key), removed |-> v]


---------------------------------------------------------------------------
\* Editor: internal helpers

\* resolve_parent: the root for an empty parent path, else the node at the
\* path; Null stands for its Err
resolve_parent(S, parent_path) ==
    IF S.root = Null THEN Null
    ELSE IF parent_path = <<>> THEN S.root
    ELSE fy_node_by_path(S, S.root, parent_path)

\* get_node_ptr_at: Null stands for its Err
get_node_ptr_at(S, path) ==
    IF S.root = Null THEN Null
    ELSE IF path = <<>> THEN S.root
    ELSE fy_node_by_path(S, S.root, path)

Take(S, hs) == [S EXCEPT !.handles = @ \ hs]

\* the end of an operation that took the handles hs by value: each is dropped
\* with the `inserted` flag it has by then
RECURSIVE DropAll(_, _, _)
DropAll(S, hs, ins) ==
    IF hs = {} THEN S
    ELSE LET n == CHOOSE x \in hs : TRUE
         IN  DropAll(RawNodeHandle_drop(S, n, ins), hs \ {n}, ins)

Finish(S, hs, ins, ok, err) ==
    [Res(DropAll(S, hs, ins), ok, err)
       EXCEPT !.drops = {Dropped(n, ins) : n \in hs}]

---------------------------------------------------------------------------
\* Editor: insertion of handles

\* Editor::set_root
set_root(S, n, engOk) ==
    LET r == fy_document_set_root(Take(S, {n}), n, engOk)
    IN  Finish(r.st, {n}, MarkedAfter(r.ret), r.ret = 0,
               IF r.ret = 0 THEN "none" ELSE "Ffi")

\* Editor::seq_append: seq is borrowed, item is taken
seq_append(S, seq, item, engOk) ==
    LET r == fy_node_sequence_append(Take(S, {item}), seq, item, engOk)
    IN  Finish(r.st, {item}, MarkedAfter(r.ret), r.ret = 0,
               IF r.ret = 0 THEN "none" ELSE "Ffi")

\* Editor::map_insert: map is borrowed, key and value are taken
map_insert(S, map, key, value, engOk) ==
    LET r == fy_node_mapping_append(Take(S, {key, value}), map, key, value, engOk)
    IN  Finish(r.st, {key, value}, MarkedAfter(r.ret), r.ret = 0,
               IF r.ret = 0 THEN "none" ELSE "Ffi")

\* Editor::seq_append_at
seq_append_at(S, path, item, engOk) ==
    LET S0      == Take(S, {item})
        seq_ptr == get_node_ptr_at(S0, path)
    IN  IF seq_ptr = Null THEN Finish(S0, {item}, FALSE, FALSE, "Ffi")
        ELSE IF S0.node[seq_ptr].kind # "seq"
        THEN Finish(S0, {item}, FALSE, FALSE, "TypeMismatch")
        ELSE LET r == fy_node_sequence_append(S0, seq_ptr, item, engOk)
             IN  Finish(r.st, {item}, MarkedAfter(r.ret), r.ret = 0,
                        IF r.ret = 0 THEN "none" ELSE "Ffi")

---------------------------------------------------------------------------
\* Editor: path-based mutation

\* Editor::set_yaml_at, the element after the target, looked up in the
\* sequence as it is before the target is removed
next_item_after_removal(S, parent_ptr, resolved_index) ==
    fy_node_sequence_get_by_index(S, parent_ptr, resolved_index + 2)

next_item_before_removal(S, parent_ptr, resolved_index) ==
    fy_node_sequence_get_by_index(S, parent_ptr, resolved_index + 1)

\* Editor::set_yaml_at
set_yaml_at(S, path, yaml, o) ==
    LET b == build_from_yaml(S, yaml, o.b)
    IN
    IF ~b.ok THEN b
    ELSE
    LET new == b.h
        S0  == b.st
        With(r, pk) == [r EXCEPT !.buf = b.buf, !.calls = b.calls, !.pkind = pk]
        Fail(Sx, err, pk) == With(Finish(Sx, {new}, FALSE, FALSE, err), pk)
        Done(Sx, pk) == With(Finish(Sx, {new}, TRUE, TRUE, "none"), pk)
    IN
    IF IsRootPath(path) THEN With(set_root(S0, new, o.linkOk), "none")
    ELSE
    LET sp         == split_path(path)
        parent_ptr == resolve_parent(S0, sp.parent)
    IN
    IF parent_ptr = Null THEN Fail(S0, "Ffi", "none")
    ELSE IF S0.node[parent_ptr].kind = "map"
    THEN LET pair == fy_node_mapping_lookup_pair_by_string(S0, parent_ptr, sp.key)
         IN  IF pair # 0
             THEN LET r == fy_node_pair_set_value(S0, parent_ptr, pair, new, o.linkOk)
                  IN  IF r.ret # 0 THEN Fail(r.st, "Ffi", "map") ELSE Done(r.st, "map")
             ELSE IF ~o.keyOk THEN Fail(S0, "Ffi", "map")
             ELSE LET key_ptr == NextId(S0)
                      S1 == EngineCreate(S0, "scalar", sp.key)
                      r  == fy_node_mapping_append(S1, parent_ptr, key_ptr, new, o.linkOk)
                  IN  IF r.ret # 0
                      THEN Fail(fy_node_free(r.st, key_ptr), "Ffi", "map")
                      ELSE Done(r.st, "map")
    ELSE IF S0.node[parent_ptr].kind = "seq"
    THEN LET ix == ParseI32(sp.key)
             count == fy_node_sequence_item_count(S0, parent_ptr)
             resolved_index == IF ix.val < 0 THEN count + ix.val ELSE ix.val
         IN  IF ~ix.ok THEN Fail(S0, "Ffi", "seq")
             ELSE IF resolved_index < 0 \/ resolved_index >= count
             THEN Fail(S0, "Ffi", "seq")
             ELSE
             LET old_item  == fy_node_sequence_get_by_index(S0, parent_ptr, resolved_index)
                 next_item == next_item_before_removal(S0, parent_ptr, resolved_index)
                 rm == fy_node_sequence_remove(S0, parent_ptr, old_item, o.removeOk)
             IN  IF old_item = Null THEN Fail(S0, "Ffi", "seq")
                 ELSE IF rm.removed = Null THEN Fail(rm.st, "Ffi", "seq")
                 ELSE
                 LET S1 == fy_node_free(rm.st, rm.removed)
                     r  == IF next_item = Null
                           THEN fy_node_sequence_append(S1, parent_ptr, new, o.linkOk)
                           ELSE fy_node_sequence_insert_before(S1, parent_ptr, next_item,
                                                               new, o.linkOk)
                 IN  IF r.ret # 0 THEN Fail(r.st, "Ffi", "seq") ELSE Done(r.st, "seq")
    ELSE Fail(S0, "TypeMismatch", "scalar")

OkVal(S, v, pk) == [Res(S, TRUE, "none") EXCEPT !.val = v, !.pkind = pk]

\* delete_at that forgets to free what it took out of a sequence
delete_at_keeps_item(S, path, removeOk) ==
    IF IsRootPath(path) THEN Res(S, FALSE, "Ffi")
    ELSE
    LET sp         == split_path(path)
        parent_ptr == resolve_parent(S, sp.parent)
    IN
    IF parent_ptr = Null THEN OkVal(S, FALSE, "none")
    ELSE IF S.node[parent_ptr].kind = "map"
    THEN LET pair == fy_node_mapping_lookup_pair_by_string(S, parent_ptr, sp.key)
         IN  IF pair = 0 THEN OkVal(S, FALSE, "map")
             ELSE LET key_ptr == S.node[parent_ptr].kids[pair]
                      rm == fy_node_mapping_remove_by_key(S, parent_ptr, key_ptr, removeOk)
                  IN  IF rm.removed = Null THEN OkVal(rm.st, FALSE, "map")
                      ELSE OkVal(fy_node_free(rm.st, rm.removed), TRUE, "map")
    ELSE IF S.node[parent_ptr].kind = "seq"
    THEN LET ix == ParseI32(sp.key)
             item_ptr == fy_node_sequence_get_by_index(S, parent_ptr, ix.val)
             rm == fy_node_sequence_remove(S, parent_ptr, item_ptr, removeOk)
         IN  IF ~ix.ok THEN [Res(S, FALSE, "Ffi") EXCEPT !.pkind = "seq"]
             ELSE IF item_ptr = Null THEN OkVal(S, FALSE, "seq")
             ELSE IF rm.removed = Null THEN OkVal(rm.st, FALSE, "seq")
             ELSE OkVal(rm.st, TRUE, "seq")
    ELSE [Res(S, FALSE, "TypeMismatch") EXCEPT !.pkind = "scalar"]

\* Editor::delete_at
delete_at(S, path, removeOk) ==
    IF IsRootPath(path) THEN Res(S, FALSE, "Ffi")
    ELSE
    LET sp         == split_path(path)
        parent_ptr == resolve_parent(S, sp.parent)
    IN
    IF parent_ptr = Null THEN OkVal(S, FALSE, "none")
    ELSE IF S.node[parent_ptr].kind = "map"
    THEN LET pair == fy_node_mapping_lookup_pair_by_string(S, parent_ptr, sp.key)
         IN  IF pair = 0 THEN OkVal(S, FALSE, "map")
             ELSE LET key_ptr == S.node[parent_ptr].kids[pair]
                      rm == fy_node_mapping_remove_by_key(S, parent_ptr, key_ptr, removeOk)
                  IN  IF rm.removed = Null THEN OkVal(rm.st, FALSE, "map")
                      ELSE OkVal(fy_node_free(rm.st, rm.removed), TRUE, "map")
    ELSE IF S.node[parent_ptr].kind = "seq"
    THEN LET ix == ParseI32(sp.key)
             item_ptr == fy_node_sequence_get_by_index(S, parent_ptr, ix.val)
             rm == fy_node_sequence_remove(S, parent_ptr, item_ptr, removeOk)
         IN  IF ~ix.ok THEN [Res(S, FALSE, "Ffi") EXCEPT !.pkind = "seq"]
             ELSE IF item_ptr = Null THEN OkVal(S, FALSE, "seq")
             ELSE IF rm.removed = Null THEN OkVal(rm.st, FALSE, "seq")
             ELSE OkVal(fy_node_free(rm.st, rm.removed), TRUE, "seq")
    ELSE [Res(S, FALSE, "TypeMismatch") EXCEPT !.pkind = "scalar"]


---------------------------------------------------------------------------
\* Spec: the Editor session

\* Paths the caller passes
Paths ==
    { <<>>, <<"/">>,
      <<"/", "a">>, <<"/", "b">>, <<"/", "c">>,
      <<"/", "a", "/", "0">>, <<"/", "a", "/", "1">>, <<"/", "a", "/", "2">>,
      <<"/", "a", "/", "-", "1">>, <<"/", "a", "/", "-", "3">>,
      <<"/", "a", "/", "x">>, <<"/", "b", "/", "0">>, <<"/", "z", "/", "q">> }

\* The engine outcomes that can occur together in one build_from_yaml
FeasibleBuilds(S, yaml) == {o \in BuildInputs : BuildFeasible(S, yaml, o)}

TreeNodes(S) == IF S.root = Null THEN {} ELSE Subtree(S, S.root)

NoOp ==
    [op |-> "none", ok |-> TRUE, err |-> "none", val |-> FALSE, drops |-> {},
     buf |-> NoBuf, calls |-> <<>>, pkind |-> "none", removed |-> {},
     h |-> Null, sinkBefore |-> "none", borrowed |-> {}]

SetState(S) ==
    /\ node' = S.node
    /\ frees' = S.frees
    /\ root' = S.root
    /\ docDiag' = S.docDiag
    /\ built' = S.built

\* The step of an operation: the state moves to the result's, a returned
\* handle is now held by the caller, and lastOp records what the call did
Commit(op, r, borrowed) ==
    /\ SetState(r.st)
    /\ handles' = IF r.h # Null THEN r.st.handles \cup {r.h} ELSE r.st.handles
    /\ lastOp' = [NoOp EXCEPT !.op = op, !.ok = r.ok, !.err = r.err,
                              !.val = r.val, !.drops = r.drops,
                              !.pkind = r.pkind,
                              !.removed = TreeNodes(Cur) \ TreeNodes(r.st),
                              !.h = r.h, !.borrowed = borrowed]
    /\ UNCHANGED <<ownVars, docVars, valVars>>

\* The same, also recording the engine calls made, the fate of the input
\* buffer and the sink installed before the call
CommitTraced(op, r) ==
    /\ SetState(r.st)
    /\ handles' = IF r.h # Null THEN r.st.handles \cup {r.h} ELSE r.st.handles
    /\ lastOp' = [NoOp EXCEPT !.op = op, !.ok = r.ok, !.err = r.err,
                              !.drops = r.drops, !.buf = r.buf,
                              !.calls = r.calls, !.h = r.h,
                              !.sinkBefore = docDiag]
    /\ UNCHANGED <<ownVars, docVars, valVars>>

\* ---- building nodes

BuildFromYaml ==
    \E yaml \in Snippets \ {"null"} : \E o \in FeasibleBuilds(Cur, yaml) :
        CommitTraced("build_from_yaml", build_from_yaml(Cur, yaml, o))

\* Editor::build_null is build_from_yaml("null")
BuildNull ==
    \E o \in FeasibleBuilds(Cur, "null") :
        CommitTraced("build_null", build_from_yaml(Cur, "null", o))

BuildScalar ==
    \E engOk \in BOOLEAN :
        /\ engOk => CanAlloc(Cur, 1)
        /\ Commit("build_scalar", build_node(Cur, "scalar", <<"w">>, engOk), {})

BuildSequence ==
    \E engOk \in BOOLEAN :
        /\ engOk => CanAlloc(Cur, 1)
        /\ Commit("build_sequence", build_node(Cur, "seq", <<>>, engOk), {})

BuildMapping ==
    \E engOk \in BOOLEAN :
        /\ engOk => CanAlloc(Cur, 1)
        /\ Commit("build_mapping", build_node(Cur, "map", <<>>, engOk), {})

\* Editor::copy_node of the scalar "w" of another document
CopyNode ==
    \E engOk \in BOOLEAN :
        /\ engOk => CanAlloc(Cur, 1)
        /\ Commit("copy_node", build_node(Cur, "scalar", <<"w">>, engOk), {})

\* In the assembly session the builders are one step: which builder made a
\* node does not matter to what follows
Build ==
    \/ \E yaml \in {"w", "[bad"} : \E o \in FeasibleBuilds(Cur, yaml) :
         Commit("build", [build_from_yaml(Cur, yaml, o) EXCEPT !.err = "none"], {})
    \/ \E kind \in {"scalar", "seq", "map"} : \E engOk \in BOOLEAN :
         /\ engOk => CanAlloc(Cur, 1)
         /\ Commit("build",
                   [build_node(Cur, kind, IF kind = "scalar" THEN <<"w">> ELSE <<>>,
                               engOk) EXCEPT !.err = "none"], {})

\* ---- inserting handles

SetRoot ==
    \E n \in handles : \E engOk \in BOOLEAN :
        Commit("set_root", set_root(Cur, n, engOk), {})

SeqAppend ==
    \E seq \in handles : \E item \in handles \ {seq} : \E engOk \in BOOLEAN :
        Commit("seq_append", seq_append(Cur, seq, item, engOk), {seq})

MapInsert ==
    \E map \in handles : \E key \in handles \ {map} :
      \E value \in handles \ {map, key} : \E engOk \in BOOLEAN :
        Commit("map_insert", map_insert(Cur, map, key, value, engOk), {map})

SeqAppendAt ==
    \E path \in {<<>>, <<"/">>, <<"/", "0">>, <<"/", "c">>} :
      \E item \in handles : \E engOk \in BOOLEAN :
        Commit("seq_append_at", seq_append_at(Cur, path, item, engOk), {})

\* the caller lets go of a handle it still holds
DropHandle ==
    \E n \in handles :
        Commit("drop", Finish(Take(Cur, {n}), {n}, FALSE, TRUE, "none"), {})

\* ---- path-based mutation

\* The snippet build inside set_yaml_at either parses the snippet or rejects
\* it with a collected error (its other outcomes are those of BuildFromYaml);
\* of the engine calls that follow, at most one fails
SetYamlAt ==
    \E path \in Paths : \E yaml \in {"w", "[]", "[bad"} :
      \E keyOk \in BOOLEAN : \E linkOk \in BOOLEAN : \E removeOk \in BOOLEAN :
        LET b == [malloc |-> TRUE, diag |-> TRUE,
                  eng |-> IF WellFormed(yaml) THEN "ok" ELSE "fail_registered",
                  collected |-> ~WellFormed(yaml)]
            o == [b |-> b, keyOk |-> keyOk, linkOk |-> linkOk, removeOk |-> removeOk]
        IN  /\ (keyOk /\ linkOk) \/ (keyOk /\ removeOk) \/ (linkOk /\ removeOk)
            /\ ~WellFormed(yaml) => keyOk /\ linkOk /\ removeOk
            /\ WellFormed(yaml) => CanAlloc(Cur, 2)
            /\ Commit("set_yaml_at", set_yaml_at(Cur, path, yaml, o), {})

DeleteAt ==
    \E path \in Paths : \E removeOk \in BOOLEAN :
        Commit("delete_at", delete_at(Cur, path, removeOk), {})

NoEditor == [open |-> FALSE, since |-> 0, mutated |-> 0, revoked |-> 0]

NoEv == [op |-> "none", killed |-> {}, docAlive |-> TRUE]

OwnIdle ==
    /\ docAlive = TRUE /\ editor = NoEditor /\ refs = {} /\ raws = {}
    /\ tick = 0 /\ ownEv = NoEv

NoParser == [made |-> FALSE, held |-> FALSE, strong |-> 0, destroyed |-> 0,
             source |-> <<>>, pos |-> 0, stream |-> <<>>, streamError |-> FALSE]

NoIter == [st |-> "none", parser |-> 0, done |-> FALSE]

NoDocEv == [op |-> "none", ok |-> TRUE, err |-> "none", text |-> "",
            diag |-> "untried", collected |-> FALSE, mallocs |-> 0,
            wrapperFrees |-> 0, engineFrees |-> 0, engineOwns |-> FALSE,
            doc |-> 0, yielded |-> "none",
            parser |-> NoParser, line |-> 0, column |-> 0,
            iter |-> 0, wasDone |-> FALSE, load |-> "notcalled"]

DocIdle ==
    /\ parsers = [p \in 1..MaxObjs |-> NoParser]
    /\ iters = [i \in 1..MaxObjs |-> NoIter]
    /\ docs = <<>>
    /\ docEv = NoDocEv

\* ValueRef: the nodes it may wrap

\* integers at the ends of the 64-bit and 128-bit ranges
IntegerEdgeTexts ==
    { <<"-", "9", "2", "2", "3", "3", "7", "2", "0", "3", "6", "8", "5", "4", "7", "7", "5", "8", "0", "8">>,
      <<"9", "2", "2", "3", "3", "7", "2", "0", "3", "6", "8", "5", "4", "7", "7", "5", "8", "0", "7">>,
      <<"9", "2", "2", "3", "3", "7", "2", "0", "3", "6", "8", "5", "4", "7", "7", "5", "8", "0", "8">>,
      <<"-", "9", "2", "2", "3", "3", "7", "2", "0", "3", "6", "8", "5", "4", "7", "7", "5", "8", "0", "9">>,
      <<"1", "8", "4", "4", "6", "7", "4", "4", "0", "7", "3", "7", "0", "9", "5", "5", "1", "6", "1", "5">>,
      <<"1", "8", "4", "4", "6", "7", "4", "4", "0", "7", "3", "7", "0", "9", "5", "5", "1", "6", "1", "6">>,
      <<"1", "7", "0", "1", "4", "1", "1", "8", "3", "4", "6", "0", "4", "6", "9", "2", "3", "1", "7", "3", "1", "6", "8", "7", "3", "0", "3", "7", "1", "5", "8", "8", "4", "1", "0", "5", "7", "2", "8">>,
      <<"-", "0">>,
      <<"0", "0", "7">>,
      <<"0", "x", "7", "F", "F", "F", "F", "F", "F", "F", "F", "F", "F", "F", "F", "F", "F", "F">>,
      <<"0", "x", "8", "0", "0", "0", "0", "0", "0", "0", "0", "0", "0", "0", "0", "0", "0", "0">>,
      <<"-", "0", "x", "8", "0", "0", "0", "0", "0", "0", "0", "0", "0", "0", "0", "0", "0", "0", "0">> }

\* signs and prefixes in places an integer does not have them
SignTexts ==
    { <<"-", "-", "5">>,
      <<"+", "-", "5">>,
      <<"-", "+", "5">>,
      <<"+", "+", "5">>,
      <<"0", "x", "-", "5">>,
      <<"0", "x", "+", "F">>,
      <<"+">>,
      <<"0", "x", "G", "G">>,
      <<"0", "b", "2">>,
      <<"-", "0", "o", "1", "7">> }

\* spellings at the edge of what str::parse::<f64> takes
FloatEdgeTexts ==
    { <<"i", "n", "f", "i", "n", "i", "t", "y">>,
      <<"+", "i", "n", "f">>,
      <<"N", "a", "N">>,
      <<"n", "a", "n">>,
      <<"1", ".">>,
      <<".", "5">>,
      <<"1", "e">>,
      <<"e", "5">>,
      <<"-", "1", ".", "5", "e", "-", "3">>,
      <<"1", ".", "2", ".", "3">>,
      <<"+", ".", "I", "N", "F">> }

\* the texts a scalar has in the model
ScalarTexts ==
    { <<>>, <<"~">>, <<"n", "u", "l", "l">>,
      <<"N", "u", "l", "l">>, <<"N", "U", "L", "L">>, <<"t", "r", "u", "e">>,
      <<"T", "r", "u", "e">>, <<"Y", "e", "s">>, <<"o", "n">>,
      <<"f", "a", "l", "s", "e">>, <<"O", "F", "F">>, <<"n", "o">>,
      <<"4", "2">>, <<"-", "1", "0">>, <<"+", "5">>,
      <<"0", "x", "F", "F">>, <<"0", "o", "7", "7">>, <<"0", "b", "1", "0", "1">>,
      <<"3", ".", "1", "4">>, <<"1", "e", "5">>, <<".", "i", "n", "f">>,
      <<"-", ".", "i", "n", "f">>, <<".", "n", "a", "n">>, <<"h", "e", "l", "l", "o">>,
      <<"h", "e", "l", "l", "o", " ", "w", "o", "r", "l", "d">>, <<"t", "R", "U", "E">>, <<"n", "u", "l">>,
      <<"0", "x">>, <<"-">>, <<"4", " ", "2">>,
      <<" ", "4", "2">>, <<"i", "n", "f">>, <<"1", "2", "a">>,
      <<"x">> }
      \cup IntegerEdgeTexts \cup SignTexts \cup FloatEdgeTexts

\* the styles fy_node_get_style reports for a scalar, and for a collection
ScalarStyles ==
    {"Plain", "SingleQuoted", "DoubleQuoted", "Literal", "Folded", "Alias"}

CollectionStyles == {"Flow", "Block"}

\* the nodes a ValueRef may wrap
Subjects ==
    [kind : {"scalar"}, style : ScalarStyles, text : ScalarTexts]
      \cup [kind : {"seq", "map"}, style : CollectionStyles, text : {<<>>}]

NoSubject == [kind |-> "none", style |-> "none", text |-> <<>>]

NoValEv == [op |-> "none", result |-> None]

ValIdle == subject = NoSubject /\ valEv = NoValEv

\* Document::new(): no nodes, no root
NewDocument ==
    /\ node = [n \in NodeIds |-> Blank]
    /\ root = Null

\* Document::parse_str("a: [x, y]\nb: v")
ParsedDocument ==
    /\ node = [n \in NodeIds |-> IF n <= InitNodes THEN ParsedTree[n] ELSE Blank]
    /\ root = 1

EditorFresh ==
    /\ frees = [n \in NodeIds |-> 0]
    /\ handles = {}
    /\ docDiag = "document"
    /\ built = 0
    /\ lastOp = NoOp

\* Spec: a session that assembles nodes from handles in a new Document
Init == NewDocument /\ EditorFresh /\ OwnIdle /\ DocIdle /\ ValIdle

Next ==
    \/ Build
    \/ SetRoot \/ SeqAppend \/ MapInsert \/ SeqAppendAt
    \/ DropHandle

Spec == Init /\ [][Next]_vars

\* SpecPath: a session of path-based mutation of a parsed Document
InitPath == ParsedDocument /\ EditorFresh /\ OwnIdle /\ DocIdle /\ ValIdle

NextPath == SetYamlAt \/ DeleteAt

SpecPath == InitPath /\ [][NextPath]_vars

\* SpecBuild: building nodes and dropping their handles, with the engine
\* calls of build_from_yaml recorded
InitBuild == (NewDocument \/ ParsedDocument) /\ EditorFresh /\ OwnIdle /\ DocIdle /\ ValIdle

NextBuild ==
    \/ BuildFromYaml \/ BuildNull \/ BuildScalar \/ BuildSequence
    \/ BuildMapping \/ CopyNode
    \/ DropHandle

SpecBuild == InitBuild /\ [][NextBuild]_vars

---------------------------------------------------------------------------
\* SpecOwn: the programs the borrow checker admits around one Document.
\*
\* A loan is what a value borrowed from the Document or from an Editor
\* holds.  The compiler rejects a program that uses a value after a
\* conflicting borrow of the same place, so in an accepted program a
\* conflicting borrow ends every loan it conflicts with: the values holding
\* them are never used again.  refs holds the NodeRefs that may still be
\* used, each with the place it borrows and the time it was made.

\* Document::edit(&mut self) -> Editor<'_>
Document_edit_shared == "shared"

Document_edit_self == "mut"

\* Document::root(&self) -> Option<NodeRef<'_>> (and at_path)
Document_root_self == "shared"

\* Editor::root(&self) -> Option<NodeRef<'_>>: the NodeRef borrows the Editor
Editor_root_borrows == "editor"

\* Editor::set_yaml_at(&mut self, ..) and every other mutating method
Editor_mutation_self == "mut"

\* struct RawNodeHandle has no lifetime parameter: it borrows nothing
RawNodeHandle_borrows == "nothing"

\* a new borrow of a place ends the loans of that place it conflicts with:
\* a unique borrow ends every loan, a shared one the unique loans
Ends(newBorrow, loan) == newBorrow = "mut" \/ loan = "mut"

\* the loan the Editor holds on the Document
EditorLoan == Document_edit_self

\* the NodeRefs whose loan on `place` a borrow of it ends
RefsEnded(place, newBorrow) ==
    {r \in refs : r.via = place /\ Ends(newBorrow, "shared")}

\* the NodeRefs that die with the Editor they borrow
EditorRefs == {r \in refs : r.via = "editor"}

Ev(op, killed) == [op |-> op, killed |-> killed, docAlive |-> docAlive]

OwnStep(op, killed) ==
    /\ tick < MaxTick
    /\ tick' = tick + 1
    /\ ownEv' = Ev(op, killed)
    /\ UNCHANGED <<editVars, docVars, valVars>>

\* let mut ed = doc.edit();
Edit ==
    LET killed == RefsEnded("doc", Document_edit_self) \cup EditorRefs
    IN  /\ docAlive
        /\ refs' = refs \ killed
        /\ editor' = [open |-> TRUE, since |-> tick + 1, mutated |-> tick + 1,
                      revoked |-> Cardinality(killed)]
        /\ UNCHANGED <<docAlive, raws>>
        /\ OwnStep("edit", killed)

\* let r = doc.root();  a live Editor whose loan conflicts is over from here
DocumentRoot ==
    LET over   == editor.open /\ Ends(Document_root_self, EditorLoan)
        killed == IF over THEN EditorRefs ELSE {}
    IN  /\ docAlive
        /\ refs' = (refs \ killed) \cup {[via |-> "doc", born |-> tick + 1]}
        /\ editor' = IF over THEN NoEditor ELSE editor
        /\ UNCHANGED <<docAlive, raws>>
        /\ OwnStep("doc_root", killed)

\* let r = ed.root();
EditorRoot ==
    /\ editor.open
    /\ refs' = refs \cup {[via |-> Editor_root_borrows, born |-> tick + 1]}
    /\ UNCHANGED <<docAlive, editor, raws>>
    /\ OwnStep("editor_root", {})

\* ed.set_yaml_at(..), ed.delete_at(..), ed.set_style(..), ..
EditorMutate ==
    LET killed == RefsEnded("editor", Editor_mutation_self)
    IN  /\ editor.open
        /\ refs' = refs \ killed
        /\ editor' = [editor EXCEPT !.mutated = tick + 1]
        /\ UNCHANGED <<docAlive, raws>>
        /\ OwnStep("mutate", killed)

\* let h = ed.build_scalar(..)?;  the handle returned holds no loan
EditorBuild ==
    LET killed == RefsEnded("editor", Editor_mutation_self)
    IN  /\ editor.open
        /\ refs' = refs \ killed
        /\ editor' = [editor EXCEPT !.mutated = tick + 1]
        /\ raws' = raws \cup {tick + 1}
        /\ UNCHANGED docAlive
        /\ OwnStep("build", killed)

\* ed.set_root(h)?;  the handle is moved into the call
EditorInsert ==
    \E h \in raws :
        LET killed == RefsEnded("editor", Editor_mutation_self)
        IN  /\ editor.open
            /\ refs' = refs \ killed
            /\ editor' = [editor EXCEPT !.mutated = tick + 1]
            /\ raws' = raws \ {h}
            /\ UNCHANGED docAlive
            /\ OwnStep("insert", killed)

\* the end of the Editor's scope
EditorEnd ==
    /\ editor.open
    /\ refs' = refs \ EditorRefs
    /\ editor' = NoEditor
    /\ UNCHANGED <<docAlive, raws, tick>>
    /\ ownEv' = Ev("editor_end", EditorRefs)
    /\ UNCHANGED <<editVars, docVars, valVars>>

\* r.scalar_str(), r.kind(), ..: any use of a NodeRef still usable
UseRef ==
    \E r \in refs :
        /\ ownEv' = [Ev("use_ref", {}) EXCEPT !.killed = {r}]
        /\ UNCHANGED <<docAlive, editor, refs, raws, tick>>
        /\ UNCHANGED <<editVars, docVars, valVars>>

\* the end of the Document's scope: Drop for Document.  It ends every loan
\* of the Document; a value with a destructor that still held one would be
\* used after it, so such a value must be gone already.
DropDocument ==
    /\ docAlive
    /\ RawNodeHandle_borrows = "doc" => raws = {}
    /\ docAlive' = FALSE
    /\ refs' = {}
    /\ editor' = NoEditor
    /\ UNCHANGED <<raws, tick>>
    /\ ownEv' = Ev("drop_document", refs)
    /\ UNCHANGED <<editVars, docVars, valVars>>

\* the end of a detached handle's scope: Drop for RawNodeHandle calls
\* fy_node_free on its node
DropRaw ==
    \E h \in raws :
        /\ raws' = raws \ {h}
        /\ ownEv' = Ev("drop_raw", {})
        /\ UNCHANGED <<docAlive, editor, refs, tick>>
        /\ UNCHANGED <<editVars, docVars, valVars>>

InitOwn == NewDocument /\ EditorFresh /\ OwnIdle /\ DocIdle /\ ValIdle

NextOwn ==
    \/ Edit \/ DocumentRoot \/ EditorRoot
    \/ EditorMutate \/ EditorBuild \/ EditorInsert \/ EditorEnd
    \/ UseRef \/ DropDocument \/ DropRaw

SpecOwn == InitOwn /\ [][NextOwn]_vars

---------------------------------------------------------------------------
\* SpecDoc: Documents, stream parsers and their iterators

\* Inputs: the empty text, a well-formed document, a malformed one
Texts == {"", "a: 1", "[unclosed"}
Malformed(t) == t = "[unclosed"

\* What a stream holds: each entry is what one fy_parse_load_document call
\* meets, a document or a syntax error; past the end the call returns null
Streams == {<<"doc">>, <<"doc", "doc">>, <<"doc", "err">>}

\* InputOwnership
Input(kind, parser) == [kind |-> kind, parser |-> parser]

\* Rc::clone of the Rc<ParserInner>
Rc_clone(ps, p) == [ps EXCEPT ![p].strong = @ + 1]

\* Drop for ParserInner: fy_parser_destroy
ParserInner_drop(pr) == [pr EXCEPT !.destroyed = @ + 1]

\* drop of one Rc<ParserInner>: the last one drops the ParserInner
Rc_drop(ps, p) ==
    LET left == ps[p].strong - 1
        pr   == [ps[p] EXCEPT !.strong = left]
    IN  [ps EXCEPT ![p] = IF left = 0 THEN ParserInner_drop(pr) ELSE pr]

\* the Document value of Document { doc_ptr, input, .. }; origin and from
\* are the engine call that made doc_ptr and the native parser it used
DocValue(origin, from, input) ==
    [origin |-> origin, from |-> from, index |-> 0, input |-> input,
     alive |-> TRUE, destroys |-> <<>>]

\* the InputOwnership DocumentIterator::next gives the Document it yields
next_input_none(p) == Input("None", 0)

next_input(p) == Input("Parser", p)

\* Drop for Document: the destroy call chosen by the match on self.input
Document_drop_call_generic(input) == [f |-> "fy_document_destroy", parser |-> 0]

Document_drop_call(input) ==
    IF input.kind = "Parser"
    THEN [f |-> "fy_parse_document_destroy", parser |-> input.parser]
    ELSE [f |-> "fy_document_destroy", parser |-> 0]

DocStep(ev) ==
    /\ docEv' = ev
    /\ UNCHANGED <<editVars, ownVars, valVars>>

\* the values made so far
Made ==
    Cardinality({p \in 1..MaxObjs : parsers[p].made})
      + Cardinality({i \in 1..MaxObjs : iters[i].st # "none"})
      + Len(docs)

FreeSlot == Made < MaxObjs

\* Document::new
DocumentNew ==
    \E engOk \in BOOLEAN :
        /\ FreeSlot
        /\ IF engOk
           THEN /\ docs' = Append(docs, DocValue("new", 0, Input("None", 0)))
                /\ DocStep([NoDocEv EXCEPT !.op = "new", !.doc = Len(docs) + 1])
           ELSE /\ docs' = docs
                /\ DocStep([NoDocEv EXCEPT !.op = "new", !.ok = FALSE, !.err = "Ffi"])
        /\ UNCHANGED <<parsers, iters>>

\* the engine parses well-formed text unless it runs out of memory, and
\* never a malformed one
ParseOutcomes(t) == IF Malformed(t) THEN {FALSE} ELSE BOOLEAN

\* How fy_document_build_from_malloc_string may end; it runs the internal
\* parser fy_node_build_from_malloc_string runs.  A syntax error is met
\* after the buffer was registered.
ParseStrOutcomes(t) == IF Malformed(t) THEN {"fail_registered"} ELSE BuildOutcomes

\* the frees of the buffer by the engine before the call returns: by the
\* cleanup of its internal parser, when that had registered the buffer
EngineFrees(eng) == IF eng = "fail_registered" THEN 1 ELSE 0

\* Document::parse_str: the text is copied to a malloc'd buffer the engine
\* takes over; the parse configuration carries no diagnostic context
ParseStr ==
    \E t \in Texts : \E mallocOk \in BOOLEAN : \E eng \in ParseStrOutcomes(t) :
        LET ev    == [NoDocEv EXCEPT !.op = "parse_str", !.text = t]
            engOk == eng = "ok"
        IN
        /\ FreeSlot
        /\ UNCHANGED <<parsers, iters>>
        /\ IF t = ""
           THEN /\ docs' = docs
                /\ DocStep([ev EXCEPT !.ok = FALSE, !.err = "Parse"])
           ELSE IF ~mallocOk
           THEN /\ docs' = docs
                /\ DocStep([ev EXCEPT !.ok = FALSE, !.err = "Alloc"])
           ELSE IF ~engOk
           THEN /\ docs' = docs
                /\ DocStep([ev EXCEPT !.ok = FALSE, !.err = "Parse",
                                      !.mallocs = 1, !.wrapperFrees = 1,
                                      !.engineFrees = EngineFrees(eng)])
           ELSE /\ docs' = Append(docs, DocValue("parse_str", 0,
                                                 Input("LibfyamlOwned", 0)))
                /\ DocStep([ev EXCEPT !.mallocs = 1, !.engineOwns = TRUE,
                                      !.doc = Len(docs) + 1])

\* Document::from_string and Document::from_bytes: the engine borrows the
\* input, which the Document keeps
FromOwned(op, kind) ==
    \E t \in Texts : \E engOk \in ParseOutcomes(t) :
        LET ev == [NoDocEv EXCEPT !.op = op, !.text = t]
        IN
        /\ FreeSlot
        /\ UNCHANGED <<parsers, iters>>
        /\ IF t = "" \/ ~engOk
           THEN /\ docs' = docs
                /\ DocStep([ev EXCEPT !.ok = FALSE, !.err = "Parse"])
           ELSE /\ docs' = Append(docs, DocValue(op, 0, Input(kind, 0)))
                /\ DocStep([ev EXCEPT !.doc = Len(docs) + 1])

FromString == FromOwned("from_string", "OwnedString")

FromBytes == FromOwned("from_bytes", "OwnedBytes")

\* FyParser::from_string.  On an error past FyParser::new the parser value is
\* dropped on the way out, and with it the only Rc.
ParserFromString ==
    \E p \in 1..MaxObjs : \E stream \in Streams :
      \E createOk \in BOOLEAN : \E mallocOk \in BOOLEAN : \E setOk \in BOOLEAN :
        LET ev      == [NoDocEv EXCEPT !.op = "parser_from_string"]
            created == [parsers EXCEPT ![p] =
                          [NoParser EXCEPT !.made = TRUE, !.held = TRUE, !.strong = 1]]
            dropped == [Rc_drop(created, p) EXCEPT ![p].held = FALSE]
        IN
        /\ FreeSlot
        /\ ~parsers[p].made
        /\ \A q \in 1..(p - 1) : parsers[q].made
        /\ UNCHANGED <<iters, docs>>
        /\ IF ~createOk
           THEN /\ parsers' = parsers
                /\ DocStep([ev EXCEPT !.ok = FALSE, !.err = "Ffi"])
           ELSE IF ~mallocOk
           THEN /\ parsers' = parsers
                /\ DocStep([ev EXCEPT !.ok = FALSE, !.err = "Alloc",
                                      !.parser = dropped[p]])
           ELSE IF ~setOk
           THEN /\ parsers' = parsers
                /\ DocStep([ev EXCEPT !.ok = FALSE, !.err = "Ffi", !.mallocs = 1,
                                      !.wrapperFrees = 1, !.parser = dropped[p]])
           ELSE /\ parsers' = [created EXCEPT ![p].stream = stream,
                                              ![p].source = stream]
                /\ DocStep([ev EXCEPT !.mallocs = 1])

\* FyParser::doc_iter: what the new iterator reads from.  Rc::clone shares
\* the parser the FyParser holds, where earlier iterators left it
doc_iter_inner_rewound(pr) ==
    [pr EXCEPT !.stream = pr.source, !.pos = 0, !.streamError = FALSE]

doc_iter_inner(pr) == pr

\* FyParser::doc_iter
DocIter ==
    \E p \in 1..MaxObjs : \E i \in 1..MaxObjs :
        /\ FreeSlot
        /\ parsers[p].held
        /\ iters[i].st = "none"
        /\ \A j \in 1..(i - 1) : iters[j].st # "none"
        /\ parsers' = Rc_clone([parsers EXCEPT ![p] = doc_iter_inner(@)], p)
        /\ iters' = [iters EXCEPT ![i] = [st |-> "live", parser |-> p, done |-> FALSE]]
        /\ docs' = docs
        /\ DocStep([NoDocEv EXCEPT !.op = "doc_iter"])

\* fy_parse_load_document as DocumentIterator::next calls it: the next
\* document of the stream, or null at the end of the stream, at a syntax
\* error, and on every call after a syntax error
fy_parse_load_document(pr) ==
    IF pr.streamError \/ pr.stream = <<>> \/ Head(pr.stream) = "err"
    THEN [doc |-> FALSE,
          pr  |-> [pr EXCEPT !.streamError = @ \/ pr.stream # <<>>,
                             !.stream = <<>>]]
    ELSE [doc |-> TRUE, pr |-> [pr EXCEPT !.stream = Tail(@), !.pos = @ + 1]]

\* fy_parser_get_stream_error
fy_parser_get_stream_error(pr) == pr.streamError

\* DocumentIterator::next, the item chosen from the engine's answers
next_yield_silent(doc_ptr_null, has_error) ==
    IF ~doc_ptr_null THEN "Doc" ELSE "None"

next_yield(doc_ptr_null, has_error) ==
    IF ~doc_ptr_null THEN "Doc"
    ELSE IF has_error THEN "Err"
    ELSE "None"

\* DocumentIterator::next, self.done after a null doc_ptr
done_after_null_unset == FALSE

done_after_null == TRUE

\* DocumentIterator::next
IterNext ==
    \E i \in 1..MaxObjs :
        LET p      == iters[i].parser
            ev     == [NoDocEv EXCEPT !.op = "next", !.iter = i,
                                      !.wasDone = iters[i].done]
            loaded == fy_parse_load_document(parsers[p])
            item   == next_yield(~loaded.doc, fy_parser_get_stream_error(loaded.pr))
        IN
        /\ iters[i].st = "live"
        /\ IF iters[i].done
           THEN /\ UNCHANGED <<parsers, iters, docs>>
                /\ DocStep([ev EXCEPT !.yielded = "None"])
           ELSE IF ~loaded.doc
           THEN /\ iters' = [iters EXCEPT ![i].done = done_after_null]
                /\ parsers' = [parsers EXCEPT ![p] = loaded.pr]
                /\ docs' = docs
                /\ IF item = "Err"
                   THEN DocStep([ev EXCEPT !.ok = FALSE, !.err = "Parse",
                                           !.yielded = item, !.load = "null"])
                   ELSE DocStep([ev EXCEPT !.yielded = item, !.load = "null"])
           ELSE /\ FreeSlot
                /\ LET input == next_input(p)
                       ps    == [parsers EXCEPT ![p] = loaded.pr]
                   IN  /\ parsers' = IF input.kind = "Parser"
                                     THEN Rc_clone(ps, input.parser) ELSE ps
                       /\ docs' = Append(docs, [DocValue("stream", p, input)
                                                  EXCEPT !.index = loaded.pr.pos])
                /\ iters' = iters
                /\ DocStep([ev EXCEPT !.yielded = item, !.load = "doc",
                                      !.doc = Len(docs) + 1])

\* the end of the FyParser value's scope
DropParser ==
    \E p \in 1..MaxObjs :
        /\ parsers[p].held
        /\ parsers' = [Rc_drop(parsers, p) EXCEPT ![p].held = FALSE]
        /\ UNCHANGED <<iters, docs>>
        /\ DocStep([NoDocEv EXCEPT !.op = "drop_parser"])

\* the end of a DocumentIterator's scope
DropIter ==
    \E i \in 1..MaxObjs :
        /\ iters[i].st = "live"
        /\ parsers' = Rc_drop(parsers, iters[i].parser)
        /\ iters' = [iters EXCEPT ![i].st = "dropped"]
        /\ docs' = docs
        /\ DocStep([NoDocEv EXCEPT !.op = "drop_iter"])

\* the end of a Document's scope: Drop::drop makes the destroy call, then
\* the fields are dropped, the Rc of InputOwnership::Parser among them.
\* gone: whether the native parser the Document came from was already
\* destroyed when the call was made.
DocumentDrop ==
    \E d \in DOMAIN docs :
        LET doc  == docs[d]
            call == Document_drop_call(doc.input)
            gone == doc.from # 0 /\ parsers[doc.from].destroyed > 0
        IN
        /\ doc.alive
        /\ docs' = [docs EXCEPT ![d].alive = FALSE,
                                ![d].destroys =
                                    Append(@, [f |-> call.f, parser |-> call.parser,
                                               gone |-> gone])]
        /\ parsers' = IF doc.input.kind = "Parser"
                      THEN Rc_drop(parsers, doc.input.parser) ELSE parsers
        /\ iters' = iters
        /\ DocStep([NoDocEv EXCEPT !.op = "drop_document", !.doc = d])

InitDoc == NewDocument /\ EditorFresh /\ OwnIdle /\ DocIdle /\ ValIdle

\* SpecDoc: Documents built from text
NextDoc ==
    \/ DocumentNew \/ ParseStr \/ FromString \/ FromBytes
    \/ DocumentDrop

SpecDoc == InitDoc /\ [][NextDoc]_vars

\* SpecStream: stream parsers, their iterators and the Documents they yield,
\* next to Documents made without a parser
NextStream ==
    \/ ParserFromString \/ DocIter \/ IterNext
    \/ DropParser \/ DropIter
    \/ DocumentNew \/ DocumentDrop

SpecStream == InitDoc /\ [][NextStream]_vars

---------------------------------------------------------------------------
\* NodeRef: reading a sequence by index (src/src/node_ref.rs)

\* Document::parse_str of a block sequence of len plain scalars: node 1 is
\* the sequence, nodes 2 .. len + 1 its items
SeqDocument(len) ==
    /\ node = [n \in NodeIds |->
                IF n = 1
                THEN [st |-> "live", kind |-> "seq", text |-> <<>>,
                      kids |-> [i \in 1..len |-> i + 1]]
                ELSE IF n <= len + 1
                THEN [st |-> "live", kind |-> "scalar", text |-> <<"x">>,
                      kids |-> <<>>]
                ELSE Blank]
    /\ root = 1

\* NodeRef::seq_get: Null stands for None
seq_get_nonnegative(S, n, index) ==
    IF S.node[n].kind # "seq" \/ index < 0 THEN Null
    ELSE fy_node_sequence_get_by_index(S, n, index)

seq_get(S, n, index) ==
    IF S.node[n].kind # "seq" THEN Null
    ELSE fy_node_sequence_get_by_index(S, n, index)

SeqGet ==
    \E n \in NodeIds : \E index \in (0 - MaxIndex)..MaxIndex :
        LET found == seq_get(Cur, n, index)
        IN  /\ IsLive(Cur, n)
            /\ valEv' = [op |-> "seq_get",
                         result |-> IF found = Null THEN None ELSE Some(found),
                         node |-> n, index |-> index]
            /\ subject' = subject
            /\ UNCHANGED <<editVars, ownVars, docVars>>

\* SpecSeq: seq_get on every node of a parsed Document, for sequences of
\* every length up to MaxSeqLen
InitSeq ==
    /\ ParsedDocument \/ \E len \in 0..MaxSeqLen : SeqDocument(len)
    /\ EditorFresh /\ OwnIdle /\ DocIdle /\ ValIdle

NextSeq == SeqGet

SpecSeq == InitSeq /\ [][NextSeq]_vars

---------------------------------------------------------------------------
\* SeqIter and MapIter: iteration over a node's children (src/src/iter.rs)

\* calls of next made on one iterator
MaxNext == 5

\* The engine's cursor protocol: *prevp is null at the start of an
\* iteration; each call returns the child after *prevp and stores what it
\* returns in *prevp.  On a node of another kind the call returns null and
\* leaves *prevp alone.
fy_node_sequence_iterate(S, n, prevp) ==
    LET kids == S.node[n].kids
        at   == CHOOSE i \in DOMAIN kids : kids[i] = prevp
        ret  == IF prevp = Null
                THEN IF kids = <<>> THEN Null ELSE kids[1]
                ELSE IF at < Len(kids) THEN kids[at + 1] ELSE Null
    IN  IF S.node[n].kind # "seq" THEN [ret |-> Null, prevp |-> prevp]
        ELSE [ret |-> ret, prevp |-> ret]

\* a pair is the position of its key in kids, 0 the null pair
fy_node_mapping_iterate(S, n, prevp) ==
    LET kids == S.node[n].kids
        ret  == IF prevp = Null
                THEN IF kids = <<>> THEN Null ELSE 1
                ELSE IF prevp + 2 < Len(kids) THEN prevp + 2 ELSE Null
    IN  IF S.node[n].kind # "map" THEN [ret |-> Null, prevp |-> prevp]
        ELSE [ret |-> ret, prevp |-> ret]

fy_node_pair_key(S, n, pair) == S.node[n].kids[pair]

fy_node_pair_value(S, n, pair) == S.node[n].kids[pair + 1]

\* SeqIter::new, MapIter::new
SeqIter_new(n) == [kind |-> "SeqIter", node |-> n, iter_ptr |-> Null]

MapIter_new(n) == [kind |-> "MapIter", node |-> n, iter_ptr |-> Null]

\* SeqIter::next: the item and the iterator after the call
SeqIter_next(S, it) ==
    LET r == fy_node_sequence_iterate(S, it.node, it.iter_ptr)
    IN  [item |-> IF r.ret = Null THEN None ELSE Some(<<r.ret>>),
         it   |-> [it EXCEPT !.iter_ptr = r.prevp]]

\* MapIter::next
MapIter_next(S, it) ==
    LET r         == fy_node_mapping_iterate(S, it.node, it.iter_ptr)
        key_ptr   == fy_node_pair_key(S, it.node, r.ret)
        value_ptr == fy_node_pair_value(S, it.node, r.ret)
    IN  [item |-> IF r.ret = Null THEN None
                  ELSE IF key_ptr = Null \/ value_ptr = Null THEN None
                  ELSE Some(<<key_ptr, value_ptr>>),
         it   |-> [it EXCEPT !.iter_ptr = r.prevp]]

NoIterEv == [op |-> "none", result |-> None, out |-> <<>>]

\* NodeRef::seq_iter, NodeRef::map_iter on a node of the Document
SeqIterNew ==
    \E n \in NodeIds :
        /\ IsLive(Cur, n)
        /\ subject' = SeqIter_new(n)
        /\ valEv' = [NoIterEv EXCEPT !.op = "seq_iter"]
        /\ UNCHANGED <<editVars, ownVars, docVars>>

MapIterNew ==
    \E n \in NodeIds :
        /\ IsLive(Cur, n)
        /\ subject' = MapIter_new(n)
        /\ valEv' = [NoIterEv EXCEPT !.op = "map_iter"]
        /\ UNCHANGED <<editVars, ownVars, docVars>>

\* a call of next; out keeps what each call on this iterator returned
IterStep(r) ==
    /\ Len(valEv.out) < MaxNext
    /\ subject' = r.it
    /\ valEv' = [op |-> "next", result |-> r.item, out |-> Append(valEv.out, r.item)]
    /\ UNCHANGED <<editVars, ownVars, docVars>>

SeqIterNext == subject.kind = "SeqIter" /\ IterStep(SeqIter_next(Cur, subject))

MapIterNext == subject.kind = "MapIter" /\ IterStep(MapIter_next(Cur, subject))

\* SpecIter: one iterator at a time over a node of a parsed Document
InitIter ==
    /\ ParsedDocument \/ \E len \in 0..MaxSeqLen : SeqDocument(len)
    /\ EditorFresh /\ OwnIdle /\ DocIdle /\ ValIdle

NextIter == SeqIterNew \/ MapIterNew \/ SeqIterNext \/ MapIterNext

SpecIter == InitIter /\ [][NextIter]_vars

---------------------------------------------------------------------------
\* ValueRef: typed reading of one node (src/src/value_ref.rs)

\* NodeRef::is_scalar
is_scalar(n) == n.kind = "scalar"

\* NodeRef::is_non_plain
is_non_plain_quoted_only(n) == n.style \in {"SingleQuoted", "DoubleQuoted"}

is_non_plain(n) ==
    n.style \in {"SingleQuoted", "DoubleQuoted", "Literal", "Folded"}

\* ValueRef::is_null
ValueRef_is_null(n) ==
    IF ~is_scalar(n) THEN FALSE
    ELSE IF is_non_plain(n) THEN FALSE
    ELSE is_null(n.text)

\* ValueRef::as_bool
as_bool(n) ==
    IF ~is_scalar(n) THEN None
    ELSE IF is_non_plain(n) THEN None
    ELSE parse_bool(n.text)

\* ValueRef::as_i64
as_i64(n) ==
    IF ~is_scalar(n) THEN None
    ELSE IF is_non_plain(n) THEN None
    ELSE parse_i64(n.text)

\* ValueRef::as_u64
as_u64(n) ==
    IF ~is_scalar(n) THEN None
    ELSE IF is_non_plain(n) THEN None
    ELSE parse_u64(n.text)

\* ValueRef::as_f64
as_f64(n) ==
    IF ~is_scalar(n) THEN None
    ELSE IF is_non_plain(n) THEN None
    ELSE parse_f64(n.text)

ValStep(op, result) ==
    /\ valEv' = [op |-> op, result |-> result]
    /\ subject' = subject
    /\ UNCHANGED <<editVars, ownVars, docVars>>

IsNull == ValStep("is_null", ValueRef_is_null(subject))

AsBool == ValStep("as_bool", as_bool(subject))

AsI64 == ValStep("as_i64", as_i64(subject))

AsU64 == ValStep("as_u64", as_u64(subject))

AsF64 == ValStep("as_f64", as_f64(subject))

\* SpecValue: the type interpretation of one node, of any kind, style and text
InitValue ==
    /\ NewDocument /\ EditorFresh /\ OwnIdle /\ DocIdle
    /\ subject \in Subjects
    /\ valEv = NoValEv

NextValue == IsNull \/ AsBool \/ AsI64 \/ AsU64 \/ AsF64

SpecValue == InitValue /\ [][NextValue]_vars

---------------------------------------------------------------------------
\* Value: emission as YAML text (src/src/value/emit.rs)

\* Value::String(s), Value::Bool(b), Value::Null
ValueString(s) == [variant |-> "String", text |-> s]

ValueBool(b) ==
    [variant |-> "Bool",
     text |-> IF b THEN <<"t", "r", "u", "e">> ELSE <<"f", "a", "l", "s", "e">>]

ValueNull == [variant |-> "Null", text |-> <<"n", "u", "l", "l">>]

Values ==
    {ValueString(s) : s \in ScalarTexts}
      \cup {ValueBool(b) : b \in BOOLEAN} \cup {ValueNull}

\* whether the engine can write the text as a plain scalar: not empty, no
\* space at either end, not a lone indicator
PlainSafe(text) ==
    /\ text # <<>>
    /\ text[1] # " " /\ text[Len(text)] # " "
    /\ text # <<"-">>

\* fy_node_create_scalar_copy as Editor::build_scalar calls it: the style
\* is determined by the content
build_scalar(text) ==
    [kind |-> "scalar",
     style |-> IF PlainSafe(text) THEN "Plain" ELSE "DoubleQuoted",
     text |-> text]

\* fy_node_set_style as Editor::set_style calls it: a style that is not
\* valid for the content leaves the node's style as it is
set_style(n, style) ==
    IF style = "Plain" /\ ~PlainSafe(n.text) THEN n
    ELSE [n EXCEPT !.style = style]

RECURSIVE UnescapeSingle(_)
UnescapeSingle(t) ==
    IF t = <<>> THEN <<>>
    ELSE IF Len(t) >= 2 /\ t[1] = "'" /\ t[2] = "'"
    THEN <<"'">> \o UnescapeSingle(SubSeq(t, 3, Len(t)))
    ELSE <<Head(t)>> \o UnescapeSingle(Tail(t))

\* the root node the engine parses from the text of one scalar
ParseScalar(yaml) ==
    LET inner == SubSeq(yaml, 2, Len(yaml) - 1)
        quote == IF Len(yaml) >= 2 /\ yaml[1] = yaml[Len(yaml)] THEN yaml[1] ELSE ""
    IN  IF quote = "'"
        THEN [kind |-> "scalar", style |-> "SingleQuoted", text |-> UnescapeSingle(inner)]
        ELSE IF quote = "\""
        THEN [kind |-> "scalar", style |-> "DoubleQuoted", text |-> inner]
        ELSE [kind |-> "scalar", style |-> "Plain", text |-> yaml]

\* Value::build_node for a scalar Value
Value_build_node(v) ==
    IF v.variant = "String"
    THEN IF needs_quoting(v.text)
         THEN set_style(build_scalar(v.text), "SingleQuoted")
         ELSE build_scalar(v.text)
    ELSE IF v.variant = "Null" THEN ParseScalar(v.text)
    ELSE build_scalar(v.text)

\* a quote inside a single-quoted scalar is written twice
RECURSIVE EscapeSingle(_)
EscapeSingle(t) ==
    IF t = <<>> THEN <<>>
    ELSE (IF Head(t) = "'" THEN <<"'", "'">> ELSE <<Head(t)>>)
           \o EscapeSingle(Tail(t))

\* fy_emit_node_to_string as NodeRef::emit calls it, for a scalar in its
\* own style (the texts of the model hold no double quote or backslash)
emit(n) ==
    IF n.style = "SingleQuoted" THEN <<"'">> \o EscapeSingle(n.text) \o <<"'">>
    ELSE IF n.style = "DoubleQuoted" THEN <<"\"">> \o n.text \o <<"\"">>
    ELSE n.text

EmitStep(ev) ==
    /\ valEv' = ev
    /\ subject' = subject
    /\ UNCHANGED <<editVars, ownVars, docVars>>

\* Value::to_yaml_string: a new Document, the node built and made its root,
\* the root emitted; any engine call may fail
ToYamlString ==
    \E engOk \in BOOLEAN :
        LET root_node == Value_build_node(subject)
        IN  IF engOk
            THEN EmitStep([op |-> "to_yaml_string", ok |-> TRUE,
                           node |-> root_node, yaml |-> emit(root_node)])
            ELSE EmitStep([op |-> "to_yaml_string", ok |-> FALSE,
                           node |-> NoSubject, yaml |-> <<>>])

\* Document::parse_str of the text to_yaml_string returned, and its root
ParseBack ==
    \E engOk \in BOOLEAN :
        /\ valEv.op = "to_yaml_string"
        /\ valEv.ok
        /\ IF engOk /\ valEv.yaml # <<>>
           THEN EmitStep([op |-> "parse_str", ok |-> TRUE,
                          node |-> ParseScalar(valEv.yaml), yaml |-> valEv.yaml])
           ELSE EmitStep([op |-> "parse_str", ok |-> FALSE,
                          node |-> NoSubject, yaml |-> valEv.yaml])

\* SpecEmit: one scalar Value emitted, and the emitted text parsed
InitEmit ==
    /\ NewDocument /\ EditorFresh /\ OwnIdle /\ DocIdle
    /\ subject \in Values
    /\ valEv = NoValEv

NextEmit == ToYamlString \/ ParseBack

SpecEmit == InitEmit /\ [][NextEmit]_vars


---------------------------------------------------------------------------
\* Properties of the Editor session

InsertOps == {"set_root", "seq_append", "map_insert", "seq_append_at"}

UnderHandle(n) == \E h \in handles : n \in Subtree(Cur, h)

\* C2: every RawNodeHandle that has been dropped left its node either freed
\* (by that drop) or owned by a tree (linked under a parent, or the root),
\* never both and never neither; no node is ever freed twice, and no live
\* node is left that neither the tree nor a handle still held owns.
C2_FreedOrOwnedExactlyOnce ==
    /\ \A d \in lastOp.drops :
          (node[d.node].st = "freed") # Attached(Cur, d.node)
    /\ \A n \in NodeIds : frees[n] <= 1
    /\ \A n \in NodeIds :
          node[n].st = "live" => n \in TreeNodes(Cur) \/ UnderHandle(n)

\* a handle dropped by the caller, its node freed, while another handle's
\* node lives on in the tree
C2_Witness ==
    /\ lastOp.op = "drop"
    /\ \E d \in lastOp.drops : node[d.node].st = "freed" /\ frees[d.node] = 1
    /\ root # Null /\ node[root].st = "live"

\* C3: an insertion operation marks a handle inserted only when the engine
\* call succeeded; when the operation fails, every handle passed by value is
\* still detached at its drop, which frees its node exactly once, and the
\* borrowed parent handle stays with the caller.
C3_MarkedOnlyOnSuccess ==
    lastOp.op \in InsertOps =>
        /\ lastOp.drops # {}
        /\ \A d \in lastOp.drops : d.inserted => lastOp.ok
        /\ ~lastOp.ok =>
              \A d \in lastOp.drops :
                  /\ ~Attached(Cur, d.node)
                  /\ node[d.node].st = "freed"
                  /\ frees[d.node] = 1
        /\ lastOp.ok =>
              \A d \in lastOp.drops :
                  node[d.node].st = "live" /\ Attached(Cur, d.node)
        /\ \A b \in lastOp.borrowed : b \in handles /\ node[b].st = "live"

\* a map_insert the engine refused: both handles freed once, the map kept
C3_Witness ==
    /\ lastOp.op = "map_insert"
    /\ ~lastOp.ok
    /\ Cardinality(lastOp.drops) = 2
    /\ \A d \in lastOp.drops : frees[d.node] = 1
    /\ lastOp.borrowed # {}

\* C7: the nodes delete_at takes out of a mapping or a sequence, and the
\* sequence element set_yaml_at replaces, are each freed exactly once: none
\* of them is still allocated, and nothing reachable from the root is freed.
C7_RemovedFreedOnce ==
    /\ (lastOp.op = "delete_at" \/ (lastOp.op = "set_yaml_at" /\ lastOp.pkind = "seq"))
          => \A n \in lastOp.removed : node[n].st = "freed" /\ frees[n] = 1
    /\ lastOp.op = "delete_at" /\ lastOp.val => lastOp.removed # {}
    /\ \A n \in TreeNodes(Cur) : node[n].st = "live"
    /\ \A n \in NodeIds : frees[n] <= 1

\* a delete_at that removed a sequence with its elements
C7_Witness ==
    /\ lastOp.op = "delete_at"
    /\ lastOp.val
    /\ Cardinality(lastOp.removed) >= 3
    /\ \A n \in lastOp.removed : frees[n] = 1

\* C8: the buffer build_from_yaml hands to the engine is released exactly
\* once on every path (by the engine, which keeps it with the Document or
\* frees it with its internal parser), and the wrapper never frees a buffer
\* the engine accepted.
C8_BufferReleasedOnce ==
    lastOp.buf.handed =>
        /\ (IF lastOp.buf.engineOwns THEN 1 ELSE lastOp.buf.engineFrees)
             + lastOp.buf.wrapperFrees = 1
        /\ (lastOp.buf.engineOwns \/ lastOp.buf.engineFrees > 0)
             => lastOp.buf.wrapperFrees = 0

\* C9: every return of build_from_yaml leaves the Document's diagnostic sink
\* the one that was installed when it was called, so the sink installed at
\* the start is in place after any number of calls.
C9_SinkRestored ==
    /\ lastOp.op \in {"build_from_yaml", "build_null"} => docDiag = lastOp.sinkBefore
    /\ docDiag = "document"

\* a failed build during which the capture context was installed
C9_Witness ==
    /\ lastOp.op = "build_from_yaml"
    /\ ~lastOp.ok
    /\ \E i \in DOMAIN lastOp.calls :
          lastOp.calls[i] = Call("fy_document_set_diag", "capture")
    /\ docDiag = "document"

---------------------------------------------------------------------------
\* Properties of the borrows

\* a NodeRef made from the Document before the live Editor, or made through
\* the Editor before its latest mutating call
Stale(r) ==
    \/ editor.open /\ r.via = "doc" /\ r.born < editor.since
    \/ r.via = "editor" /\ r.born < editor.mutated

\* C1: reads and writes of one Document never interleave: no NodeRef that
\* can still be used was taken from the Document before the Editor that now
\* exists, and none was taken through the Editor before a later mutating
\* call on it; no NodeRef taken through an Editor outlives it.
C1_ReadsWritesNeverInterleave ==
    /\ \A r \in refs : ~Stale(r)
    /\ ~editor.open => \A r \in refs : r.via = "doc"

\* an Editor whose creation ended a NodeRef of the Document, and a mutating
\* call on it that ended a NodeRef taken through it
C1_Witness ==
    /\ editor.open
    /\ editor.revoked > 0
    /\ ownEv.op = "mutate"
    /\ \E r \in ownEv.killed : r.via = "editor"

\* C4: the node of a RawNodeHandle is never freed after its Document was
\* destroyed: no handle is dropped once the Document is gone.
C4_NoFreeAfterDocument ==
    ownEv.op = "drop_raw" => ownEv.docAlive

---------------------------------------------------------------------------
\* Properties of Documents and stream parsers

LiveIters(p) == {i \in 1..MaxObjs : iters[i].st = "live" /\ iters[i].parser = p}

LiveDocsOf(p) == {d \in DOMAIN docs : docs[d].alive /\ docs[d].from = p}

\* C5: the native parser is destroyed at most once and only when the parser
\* value, every iterator made from it and every Document it yielded are
\* gone; no Document it yielded is destroyed after it.
C5_ParserDestroyedLast ==
    /\ \A p \in 1..MaxObjs :
          /\ parsers[p].destroyed <= 1
          /\ parsers[p].destroyed > 0 =>
                /\ ~parsers[p].held
                /\ LiveIters(p) = {}
                /\ LiveDocsOf(p) = {}
    /\ \A d \in DOMAIN docs :
          \A k \in DOMAIN docs[d].destroys : ~docs[d].destroys[k].gone

\* a yielded Document dropped after its parser value and its iterator, its
\* drop being what destroyed the native parser
C5_Witness ==
    /\ docEv.op = "drop_document"
    /\ docs[docEv.doc].origin = "stream"
    /\ LET p == docs[docEv.doc].from
       IN  /\ parsers[p].destroyed = 1
           /\ \E i \in 1..MaxObjs : iters[i].st = "dropped" /\ iters[i].parser = p

\* C6: a Document is destroyed exactly once when dropped and not before, by
\* the parser-document destroy call on its own parser if a stream parser
\* yielded it, by the generic destroy call otherwise.
C6_DestroyMatchesOrigin ==
    \A d \in DOMAIN docs :
        IF docs[d].alive THEN docs[d].destroys = <<>>
        ELSE /\ Len(docs[d].destroys) = 1
             /\ IF docs[d].origin = "stream"
                THEN /\ docs[d].destroys[1].f = "fy_parse_document_destroy"
                     /\ docs[d].destroys[1].parser = docs[d].from
                ELSE /\ docs[d].destroys[1].f = "fy_document_destroy"

\* a yielded Document and a Document made without a parser, both dropped
C6_Witness ==
    /\ \E d \in DOMAIN docs : ~docs[d].alive /\ docs[d].origin = "stream"
    /\ \E d \in DOMAIN docs : ~docs[d].alive /\ docs[d].origin = "new"

\* C10: when building a Document from text or bytes fails on malformed
\* input, the error is the located kind with line and column at least 1;
\* the unlocated kind only if the diagnostic context could not be created or
\* collected nothing.
C10_MalformedIsLocated ==
    (/\ docEv.op \in {"parse_str", "from_string", "from_bytes"}
     /\ ~docEv.ok
     /\ Malformed(docEv.text))
    => \/ docEv.err = "ParseError" /\ docEv.line >= 1 /\ docEv.column >= 1
       \/ /\ docEv.err = "Parse"
          /\ \/ docEv.diag = "failed"
             \/ docEv.diag = "created" /\ ~docEv.collected

\* C11: the Err item a stream iterator yields for a malformed stream is the
\* located ParseError kind, with a line and a column, and not the unlocated
\* Parse kind
C11_StreamErrIsLocated ==
    (docEv.op = "next" /\ docEv.yielded = "Err")
        => /\ docEv.err = "ParseError"
           /\ docEv.line >= 1
           /\ docEv.column >= 1

\* C12: a stream iterator yields an Err exactly when the engine's load-next
\* call gave no document while the parser's stream error condition is set;
\* with no document and no error condition it ends without an Err
C12_ErrIffNullAndStreamError ==
    docEv.op = "next" =>
        LET error == parsers[iters[docEv.iter].parser].streamError
        IN  /\ docEv.yielded = "Err" <=> (docEv.load = "null" /\ error)
            /\ (docEv.load = "null" /\ ~error)
                  => (docEv.yielded = "None" /\ docEv.ok)

C12_Witness ==
    /\ docEv.op = "next"
    /\ docEv.load = "null"
    /\ docEv.yielded = "Err"
    /\ parsers[iters[docEv.iter].parser].streamError

\* C13: once an iterator has returned the end of the stream or an Err, it
\* stays finished, and every later next on it returns None without a call
\* to the engine
C13_FinishedStaysFinished ==
    [][/\ (docEv'.op = "next" /\ docEv'.yielded \in {"None", "Err"})
            => iters'[docEv'.iter].done
       /\ \A i \in 1..MaxObjs :
            iters[i].done =>
              /\ iters'[i].done
              /\ (docEv'.op = "next" /\ docEv'.iter = i)
                    => /\ docEv'.yielded = "None"
                       /\ docEv'.load = "notcalled"]_vars

C13_Witness ==
    /\ docEv.op = "next"
    /\ docEv.wasDone
    /\ docEv.yielded = "None"
    /\ docEv.load = "notcalled"
    /\ parsers[iters[docEv.iter].parser].streamError

\* C14: for every path other than the root whose target does not exist (a
\* missing parent, a missing key, an index out of range, a final segment
\* that names nothing under the parent), delete_at returns false and not
\* an error
C14_MissingTargetIsFalse ==
    \A path \in Paths : \A removeOk \in BOOLEAN :
        (~IsRootPath(path) /\ get_node_ptr_at(Cur, path) = Null)
            => LET r == delete_at(Cur, path, removeOk)
               IN  r.ok /\ r.val = FALSE

\* the engine outcomes of a set_yaml_at whose snippet parses
SetEngine ==
    {[b |-> [malloc |-> TRUE, diag |-> TRUE, eng |-> "ok", collected |-> FALSE],
      keyOk |-> k, linkOk |-> l, removeOk |-> r] :
        k \in BOOLEAN, l \in BOOLEAN, r \in BOOLEAN}

\* the node n and everything below it is in T as it was in S
SameContent(S, T, n) == \A m \in Subtree(S, n) : T.node[m] = S.node[m]

\* the last segment of a path, and the node its other segments lead to
LastSegment(path) == LET segs == Segments(path, <<>>) IN segs[Len(segs)]

ParentOf(S, path) ==
    LET segs == Segments(path, <<>>)
    IN  IF S.root = Null THEN Null
        ELSE Walk(S, S.root, SubSeq(segs, 1, Len(segs) - 1))

\* n is in T the node the snippet yaml parses to, and was not in the tree of S
IsNewNode(S, T, n, yaml) ==
    /\ n \notin TreeNodes(S)
    /\ IsLive(T, n)
    /\ T.node[n].kind = SnippetKind(yaml)
    /\ T.node[n].text = SnippetText(yaml)

\* C15: on a sequence of length N and an index i with -N <= i < N, a
\* successful set_yaml_at replaces exactly the element at i (at N + i for a
\* negative i): the length stays N, the new node is at that position, and
\* every other element keeps its position and its content
C15_ReplacesExactlyOneElement ==
    \A path \in Paths : \A yaml \in {"w", "[]"} :
        LET parent == ParentOf(Cur, path)
            ix     == ParseI32(LastSegment(path))
            before == Cur.node[parent].kids
            N      == Len(before)
            at     == (IF ix.val < 0 THEN N + ix.val ELSE ix.val) + 1
        IN  (/\ ~IsRootPath(path)
             /\ CanAlloc(Cur, 2)
             /\ parent # Null
             /\ Cur.node[parent].kind = "seq"
             /\ ix.ok /\ -N <= ix.val /\ ix.val < N)
            => \A o \in SetEngine :
                 LET r     == set_yaml_at(Cur, path, yaml, o)
                     after == r.st.node[parent].kids
                 IN  r.ok =>
                       /\ Len(after) = N
                       /\ IsNewNode(Cur, r.st, after[at], yaml)
                       /\ \A j \in 1..N :
                            j # at => /\ after[j] = before[j]
                                      /\ SameContent(Cur, r.st, before[j])

C15_Witness ==
    /\ lastOp.op = "set_yaml_at"
    /\ lastOp.ok
    /\ lastOp.pkind = "seq"
    /\ lastOp.removed # {}
    /\ root = 1
    /\ Len(node[3].kids) = 2
    /\ node[node[3].kids[1]].text = <<"x">>
    /\ node[node[3].kids[2]].text # <<"y">>

\* C16: on a mapping, set_yaml_at replaces the value of the pair that has
\* the key and leaves the number and the order of the pairs as they were;
\* with no such pair it appends exactly one pair, whose key is a scalar
\* with the segment's text, and leaves the pairs there were as they were
C16_ReplacesValueOrAppendsPair ==
    \A path \in Paths : \A yaml \in {"w", "[]"} :
        LET parent == ParentOf(Cur, path)
            key    == LastSegment(path)
            before == Cur.node[parent].kids
            pair   == fy_node_mapping_lookup_pair_by_string(Cur, parent, key)
        IN  (/\ ~IsRootPath(path)
             /\ CanAlloc(Cur, 2)
             /\ parent # Null
             /\ Cur.node[parent].kind = "map")
            => \A o \in SetEngine :
                 LET r     == set_yaml_at(Cur, path, yaml, o)
                     after == r.st.node[parent].kids
                 IN  r.ok =>
                       IF pair # 0
                       THEN /\ Len(after) = Len(before)
                            /\ IsNewNode(Cur, r.st, after[pair + 1], yaml)
                            /\ \A j \in DOMAIN before :
                                 j # pair + 1 => /\ after[j] = before[j]
                                                 /\ SameContent(Cur, r.st, before[j])
                       ELSE /\ Len(after) = Len(before) + 2
                            /\ after[Len(after) - 1] \notin TreeNodes(Cur)
                            /\ r.st.node[after[Len(after) - 1]] =
                                 [st |-> "live", kind |-> "scalar",
                                  text |-> key, kids |-> <<>>]
                            /\ IsNewNode(Cur, r.st, after[Len(after)], yaml)
                            /\ \A j \in DOMAIN before :
                                 /\ after[j] = before[j]
                                 /\ SameContent(Cur, r.st, before[j])

\* a key was replaced and then a key was added
C16_Witness ==
    /\ lastOp.op = "set_yaml_at"
    /\ lastOp.ok
    /\ lastOp.pkind = "map"
    /\ lastOp.removed = {}
    /\ root = 1
    /\ Len(node[1].kids) = 6
    /\ node[node[1].kids[5]].text = <<"c">>
    /\ node[1].kids[4] # 7

\* the last call was a type interpretation, and it read the node as a
\* null, a bool or a number
Accessors == {"is_null", "as_bool", "as_i64", "as_u64", "as_f64"}

Interpreted ==
    IF valEv.op = "is_null" THEN valEv.result = TRUE ELSE valEv.result.some

\* C17: type interpretation is attempted only on a scalar whose style is
\* Plain: on a node that is not a scalar, or whose style is anything but
\* Plain, is_null returns false and as_bool, as_i64, as_u64 and as_f64
\* return none
C17_OnlyPlainScalarsInterpreted ==
    (valEv.op \in Accessors /\ ~(subject.kind = "scalar" /\ subject.style = "Plain"))
        => ~Interpreted

\* C18: on a scalar whose style is single-quoted, double-quoted, literal or
\* folded, is_null returns false and as_bool, as_i64, as_u64 and as_f64
\* return none, whatever its text
C18_QuotedAndBlockNeverInterpreted ==
    (/\ valEv.op \in Accessors
     /\ subject.kind = "scalar"
     /\ subject.style \in {"SingleQuoted", "DoubleQuoted", "Literal", "Folded"})
        => ~Interpreted

C18_Witness ==
    /\ valEv.op = "as_bool"
    /\ subject.kind = "scalar"
    /\ subject.style = "Literal"
    /\ subject.text = <<"t", "r", "u", "e">>
    /\ ~valEv.result.some

\* C19: on a sequence of length N, seq_get(i) with -N <= i < 0 returns the
\* element seq_get(N + i) returns, which is the element at position N + i,
\* and seq_get(i) with i >= N or i < -N returns not-found
C19_NegativeIndexCountsFromEnd ==
    (valEv.op = "seq_get" /\ node[valEv.node].kind = "seq") =>
        LET kids == node[valEv.node].kids
            N    == Len(kids)
            i    == valEv.index
        IN  /\ (0 - N <= i /\ i < 0) =>
                  /\ valEv.result.some
                  /\ valEv.result.val = kids[N + i + 1]
                  /\ valEv.result.val = seq_get(Cur, valEv.node, N + i)
            /\ (i >= N \/ i < 0 - N) => ~valEv.result.some

C19_Witness ==
    /\ valEv.op = "seq_get"
    /\ node[valEv.node].kind = "seq"
    /\ Len(node[valEv.node].kids) = MaxSeqLen
    /\ valEv.index = -1
    /\ valEv.result.some
    /\ valEv.result.val = node[valEv.node].kids[MaxSeqLen]

\* the text, read as a plain scalar, matches the null, bool or number rules
MatchesARule(s) == is_null(s) \/ parse_bool(s).some \/ parse_number(s).some

\* the node reads as a string: no accessor interprets it
ReadsAsString(n) ==
    /\ is_scalar(n)
    /\ ~ValueRef_is_null(n)
    /\ ~as_bool(n).some /\ ~as_i64(n).some /\ ~as_u64(n).some /\ ~as_f64(n).some

\* C20: for every string s that, read as a plain scalar, matches the null,
\* bool or number rules, Value::String(s).to_yaml_string() emits s as a
\* quoted scalar, and the text read back is the string s, not a null, a
\* bool or a number
C20_AmbiguousStringsQuoted ==
    (/\ valEv.op \in {"to_yaml_string", "parse_str"}
     /\ valEv.ok
     /\ subject.variant = "String"
     /\ MatchesARule(subject.text))
        => /\ valEv.node.style \in {"SingleQuoted", "DoubleQuoted"}
           /\ valEv.yaml # subject.text
           /\ valEv.op = "parse_str"
                 => (ReadsAsString(valEv.node) /\ valEv.node.text = subject.text)

C20_Witness ==
    /\ valEv.op = "parse_str"
    /\ valEv.ok
    /\ subject = ValueString(<<"4", "2">>)
    /\ valEv.yaml = <<"'", "4", "2", "'">>
    /\ valEv.node.style = "SingleQuoted"
    /\ valEv.node.text = <<"4", "2">>

\* a decimal integer text: at most one sign, then one or more digits
DecimalText(s) ==
    LET body == IF s # <<>> /\ s[1] \in {"+", "-"} THEN Tail(s) ELSE s
    IN  body # <<>> /\ \A i \in DOMAIN body : body[i] \in Digits

RECURSIVE StripZeros(_)
StripZeros(m) == IF m # <<>> /\ Head(m) = 0 THEN StripZeros(Tail(m)) ELSE m

\* the number a run of at most eight decimal digits writes
RECURSIVE RunValue(_)
RunValue(ds) ==
    IF ds = <<>> THEN 0 ELSE RunValue(SubSeq(ds, 1, Len(ds) - 1)) * 10 + ds[Len(ds)]

\* the magnitude decimal digits write: runs of eight digits from the right
DecimalMag(ds) ==
    LET n == Len(ds)
        L == (n + 7) \div 8
    IN  [k \in 1..L |->
            LET last == n - 8 * (L - k)
            IN  RunValue(SubSeq(ds, IF last > 8 THEN last - 7 ELSE 1, last))]

\* the value a decimal integer text denotes
Denoted(s) ==
    LET body == IF s[1] \in {"+", "-"} THEN Tail(s) ELSE s
    IN  IntOf(s[1] = "-",
              DecimalMag(StripZeros([i \in DOMAIN body |-> DigitVal(body[i])])))

\* C21: for a decimal integer text with an optional sign that denotes v, the
\* signed 64-bit interpretation of a plain scalar is v when
\* -2^63 <= v <= 2^63 - 1 and none otherwise
C21_I64RangeIsExact ==
    (/\ valEv.op = "as_i64"
     /\ subject.kind = "scalar" /\ subject.style = "Plain"
     /\ DecimalText(subject.text))
        => LET v == Denoted(subject.text)
               fits == \/ v.neg /\ MagLeq(v.mag, I64MinMag)
                       \/ ~v.neg /\ MagLeq(v.mag, I64MaxMag)
           IN  /\ valEv.result.some = fits
               /\ fits => valEv.result.val = v

C21_Witness ==
    /\ valEv.op = "as_i64"
    /\ subject.style = "Plain"
    /\ DecimalText(subject.text)
    /\ Denoted(subject.text) = IntOf(TRUE, I64MinMag)
    /\ valEv.result.some
    /\ valEv.result.val = IntOf(TRUE, I64MinMag)

\* the Document's tree: its root and the nodes under it
TreeOf(S) == [root |-> S.root, nodes |-> [n \in TreeNodes(S) |-> S.node[n]]]

AfterStep ==
    [node |-> node', frees |-> frees', root |-> root', handles |-> handles',
     docDiag |-> docDiag', built |-> built']

\* C22: building a node (build_from_yaml, build_null, build_scalar,
\* build_sequence, build_mapping, copy_node) and dropping a handle that was
\* not inserted each leave the Document's tree as it was, so any number of
\* build and drop cycles does
C22_BuildAndDropLeaveTree ==
    [][lastOp'.op \in {"build_from_yaml", "build_null", "build_scalar",
                       "build_sequence", "build_mapping", "copy_node", "drop"}
         => TreeOf(AfterStep) = TreeOf(Cur)]_vars

\* two nodes built and dropped beside the parsed tree, which is whole
C22_Witness ==
    /\ lastOp.op = "drop"
    /\ Cardinality({n \in NodeIds : frees[n] = 1}) = 2
    /\ root # Null
    /\ Cardinality(TreeNodes(Cur)) = InitNodes
    /\ \A n \in TreeNodes(Cur) : node[n].st = "live"

\* C23: a set_yaml_at that returns an error leaves the Document's tree as it
\* was before the call, no element or pair removed or replaced, and leaves
\* no node of its own allocated
C23_FailedSetLeavesTree ==
    [][(lastOp'.op = "set_yaml_at" /\ ~lastOp'.ok)
         => /\ TreeOf(AfterStep) = TreeOf(Cur)
            /\ \A n \in NodeIds : node'[n].st = "live" => node[n].st = "live"]_vars

\* C24: the malloc'd copy Document::parse_str hands to the engine is
\* released exactly once on every path: kept by the engine with the Document
\* it built, or freed once, by the engine or by the wrapper, when no
\* Document was built
C24_ParseStrBufferFreedOnce ==
    (docEv.op = "parse_str" /\ docEv.mallocs = 1)
        => IF docEv.ok
           THEN docEv.engineOwns /\ docEv.wrapperFrees + docEv.engineFrees = 0
           ELSE ~docEv.engineOwns /\ docEv.wrapperFrees + docEv.engineFrees = 1

\* C25: once an iterator of a parser has reached the end of the stream, no
\* other iterator of that parser yields a Document; and over all the
\* iterators of one parser each document of the stream is yielded at most
\* once
C25_StreamIsNotRestarted ==
    /\ \A i \in 1..MaxObjs : \A j \in 1..MaxObjs :
          (/\ i # j
           /\ iters[i].st = "live" /\ ~iters[i].done
           /\ iters[j].parser = iters[i].parser /\ iters[j].done)
              => LET loaded == fy_parse_load_document(parsers[iters[i].parser])
                 IN  next_yield(~loaded.doc, fy_parser_get_stream_error(loaded.pr))
                       # "Doc"
    /\ docEv.op = "next" =>
          LET p == iters[docEv.iter].parser
          IN  (\E j \in 1..MaxObjs :
                   j # docEv.iter /\ iters[j].parser = p /\ iters[j].done)
                => docEv.yielded # "Doc"
    /\ \A d \in DOMAIN docs : \A e \in DOMAIN docs :
          (d # e /\ docs[d].from # 0 /\ docs[d].from = docs[e].from)
              => docs[d].index # docs[e].index
    /\ \A d \in DOMAIN docs :
          docs[d].from # 0 =>
              /\ docs[d].index \in 1..Len(parsers[docs[d].from].source)
              /\ parsers[docs[d].from].source[docs[d].index] = "doc"

\* one iterator read the document and the end of the stream, and a second
\* iterator of the same parser then found nothing
C25_Witness ==
    /\ docEv.op = "next"
    /\ ~docEv.wasDone
    /\ docEv.yielded = "None"
    /\ Cardinality({d \in DOMAIN docs : docs[d].from = iters[docEv.iter].parser}) = 1
    /\ \E j \in 1..MaxObjs :
          /\ j # docEv.iter
          /\ iters[j].parser = iters[docEv.iter].parser
          /\ iters[j].done

\* the integer a decimal text of at most nine digits writes
SegmentValue(s) ==
    IF s[1] = "-" THEN 0 - DigitsVal(Tail(s))
    ELSE IF s[1] = "+" THEN DigitsVal(Tail(s))
    ELSE DigitsVal(s)

\* C26: when the parent of the path is a sequence of length N and the last
\* segment is not an integer, or is an integer whose index (N added to a
\* negative one) is outside 0..N-1, set_yaml_at returns an error, and the
\* sequence holds the same elements, each alive and with the content it had
C26_BadIndexLeavesSequence ==
    \A path \in Paths : \A yaml \in {"w", "[]"} :
        LET parent == ParentOf(Cur, path)
            seg    == LastSegment(path)
            before == Cur.node[parent].kids
            N      == Len(before)
            i      == SegmentValue(seg)
            at     == IF i < 0 THEN N + i ELSE i
        IN  (/\ ~IsRootPath(path)
             /\ CanAlloc(Cur, 2)
             /\ parent # Null
             /\ Cur.node[parent].kind = "seq"
             /\ (~DecimalText(seg) \/ at < 0 \/ at >= N))
            => \A o \in SetEngine :
                 LET r == set_yaml_at(Cur, path, yaml, o)
                 IN  /\ ~r.ok
                     /\ r.st.node[parent].kids = before
                     /\ \A j \in 1..N :
                          /\ IsLive(r.st, before[j])
                          /\ SameContent(Cur, r.st, before[j])

\* a set_yaml_at on a sequence failed and took nothing out of the tree,
\* where every sequence of the tree is empty, so that no index is in range
C26_Witness ==
    /\ lastOp.op = "set_yaml_at"
    /\ ~lastOp.ok
    /\ lastOp.pkind = "seq"
    /\ lastOp.removed = {}
    /\ \A n \in TreeNodes(Cur) : node[n].kind = "seq" => node[n].kids = <<>>

\* the digits of the base a prefix announces, or of base ten without one
BodySyntax(b) ==
    LET pre   == IF Len(b) >= 2 THEN <<b[1], to_ascii_lowercase(b[2])>> ELSE <<>>
        radix == CASE pre = <<"0", "x">> -> 16
                   [] pre = <<"0", "o">> -> 8
                   [] pre = <<"0", "b">> -> 2
                   [] OTHER -> 10
        ds    == IF radix = 10 THEN b ELSE SubSeq(b, 3, Len(b))
    IN  ds # <<>> /\ \A i \in DOMAIN ds : RadixDigit(ds[i]) < radix

\* at most one sign, then a decimal or a prefixed body
IntegerSyntax(s) ==
    BodySyntax(IF s # <<>> /\ s[1] \in {"+", "-"} THEN Tail(s) ELSE s)

\* C27: the signed integer interpretation of a plain scalar, and the
\* integer variants of the number inference, give a value only for a text
\* made of at most one '+' or '-' and then decimal digits or a 0x/0X, 0o/0O
\* or 0b/0B prefix with digits of that base (spaces around the text apart)
C27_IntegersHaveOneSign ==
    (subject.kind = "scalar" /\ subject.style = "Plain"
        /\ ~IntegerSyntax(trim(subject.text)))
        => /\ valEv.op = "as_i64" => ~valEv.result.some
           /\ LET n == parse_number(subject.text)
              IN  ~(n.some /\ n.val \in {"Int", "UInt"})

\* a text the float rule admits: a special spelling, a text with a decimal
\* point or an exponent marker, or a decimal integer
FloatSyntax(s) ==
    \/ SpecialFloat(s).some
    \/ Find(s, {"."}) # 0
    \/ Find(s, {"e", "E"}) # 0
    \/ DecimalText(s)

\* C28: the float interpretation of a plain scalar gives a value only for a
\* text that is .inf, +.inf, -.inf or .nan in any letter case, or has a
\* decimal point or an exponent marker, or is a decimal integer
C28_FloatsNeedPointOrExponent ==
    (/\ valEv.op = "as_f64"
     /\ subject.kind = "scalar" /\ subject.style = "Plain"
     /\ ~FloatSyntax(subject.text))
        => ~valEv.result.some

\* what the k-th call of next returns on an iterator over children that
\* ends after the last one
ChildAt(it, k) ==
    LET kids == node[it.node].kids
    IN  IF it.kind = "SeqIter"
        THEN IF k <= Len(kids) THEN Some(<<kids[k]>>) ELSE None
        ELSE IF 2 * k <= Len(kids) THEN Some(<<kids[2 * k - 1], kids[2 * k]>>)
        ELSE None

\* C29: an iterator over a sequence (a mapping) with N children returns on
\* its first N calls of next the N items (key/value pairs) in document
\* order, and none on every call after them
C29_IteratorEndsAfterChildren ==
    (\/ subject.kind = "SeqIter" /\ node[subject.node].kind = "seq"
     \/ subject.kind = "MapIter" /\ node[subject.node].kind = "map")
        => \A k \in DOMAIN valEv.out :
             /\ valEv.out[k].some = ChildAt(subject, k).some
             /\ valEv.out[k].some => valEv.out[k].val = ChildAt(subject, k).val

\* C30: in every build_from_yaml, when the capture context is released
\* (fy_diag_unref) the Document's sink is no longer that context: the saved
\* sink was re-installed first
C30_SinkRestoredBeforeRelease ==
    lastOp.op = "build_from_yaml" =>
        \A i \in DOMAIN lastOp.calls :
            lastOp.calls[i] = Call("fy_diag_unref", "capture")
                => SinkAfter(SubSeq(lastOp.calls, 1, i - 1), lastOp.sinkBefore)
                     # "capture"

====
